---- MODULE Spec2Model ----
(***************************************************************************)
(* A model of the event loop / window thread core of winctx.               *)
(*                                                                         *)
(* Three kinds of execution context are modelled:                          *)
(*   - producers, holding clones of a Sender (src/sender.rs);              *)
(*   - the task that owns the EventLoop and calls tick() (src/event_loop.rs)*)
(*   - the window thread running the message pump                          *)
(*     (src/window_loop/window_loop.rs, src/window_loop/menu_manager.rs);  *)
(* together with the platform, which displays balloons and posts messages  *)
(* to the window's message queue.                                          *)
(*                                                                         *)
(* Option<T> values are sequences of length at most one.                   *)
(***************************************************************************)
EXTENDS Integers, Sequences, FiniteSets, TLC

\* ------------------------------------------------------------------ bounds
\* Number of configured notification areas (AreaId 0 .. NumAreas-1).
NumAreas == 2
\* Number of commands the producers may issue (notifications included).
MaxCommands == 3
\* Number of entries of the icon table (IconId 0 .. NumIcons-1).
NumIcons == 1
\* Number of clipboard-update signals the platform raises.
MaxUpdates == 2
\* Number of mouse clicks on a tray icon.
MaxClicks == 1
\* Producers holding a clone of the Sender.
Producers == {"p1"}
\* The clones of the Sender when two producers send concurrently.
Clones == {"p1", "p2"}
\* Byte-copy messages: the longest payload, the number of bytes of a usize and
\* the number of messages sent.
MaxPayload == 2
UsizeBytes == 2
MaxCopies == 2
\* The areas a CreateWindow builder is given before it builds.
MaxAreas == 2
\* Area indexes a command may carry: the configured ones and one stale index.
AreaInputs == 0..NumAreas
ConfiguredAreas == 0..(NumAreas - 1)

VARIABLES
    notifications,  \* Inner.notifications: the atomic id counter
    builder,        \* per producer: the NotificationBuilder it holds, if any
    sentCommands,   \* number of non-notification commands sent so far
    events_rx,      \* the command channel (InputEvent values in flight)
    visible,        \* EventLoop.visible : Option<(AreaId, NotificationId)>
    pending,        \* EventLoop.pending : VecDeque<(AreaId, NotificationId, _)>
    pc,             \* position of the task that owns the EventLoop
    result,         \* value returned by the last completed tick()
    thread,         \* WindowLoop.thread : Option<JoinHandle>
    threadState,    \* the window thread itself: "running" or "exited"
    threadResult,   \* value the window thread returned
    hwndValid,      \* the native window still exists
    msgq,           \* the window's message queue
    win_events,     \* WindowLoop.events_rx: events sent by the window thread
    events_tx_open, \* the window thread still holds events_tx
    shown,          \* balloons currently displayed by the platform
    destroyed,      \* the platform has asked the window to be destroyed
    joinResult,     \* value returned by the last completed join()
    joinCalls,      \* log: for each completed join(), was the thread joined before
    native,         \* log: native mutations executed, with the executing thread
    accepted,       \* log: NotificationIds of Notification commands taken by tick()
    forwarded,      \* log: NotificationIds passed to send_notification
    taken,          \* log: NotificationIds returned by take_notification
    nShutdown,      \* number of Event::Shutdown values returned by tick()
    errored,        \* tick() returned an Err value before any Event::Shutdown
    lastWindowEvent,\* log: the last WindowEvent returned by WindowLoop::tick
    sent,           \* log: per producer, the number of commands it put in the channel
    done,           \* log: per producer, the number of its commands tick() has taken
    idBase,         \* log: the ids below this one were handed out before the run
    areas,          \* the tray icons as the platform holds them: icon and tooltip
    emitted,        \* log: number of events the window thread put in its channel
    clicks,         \* log: number of mouse clicks on a tray icon
    clipboard_manager, \* the window thread's Option<ClipboardManager> is Some
    timers,         \* the timers of the window that are set
    attempts,       \* ClipboardManager.attempts
    supported,      \* ClipboardManager.supported
    updates,        \* log: number of clipboard-update signals raised
    fires,          \* log: number of times the debounce timer fired
    retryPolls,     \* log: polls made by the retry timer since it was armed
    clipEvents,     \* log: number of WindowEvent::Clipboard events sent
    clipErrors,     \* log: number of WindowEvent::Error events sent
    late,           \* log: a clipboard-update signal was raised after a firing
    delivered,      \* log: a Clipboard event was sent and no signal raised since
    copySent,       \* log: the byte-copy messages sent to the window, in order
    copied,         \* log: the Event::CopyData values tick() returned, in order
    cw,             \* the CreateWindow builder: its areas and its icons
    given,          \* log: the ids the builder returned to the application
    bpc,            \* position of CreateWindow::build
    buildResult,    \* what CreateWindow::build returned
    menus,          \* per area, the popup menu the window holds for it, if any
    tracked,        \* log: the TrackPopupMenu calls of the window thread
    mbuilder,       \* per producer: the modify builder it holds, if any
    clipboard       \* the formats and the data on the clipboard, if fixed

vars == <<notifications, builder, sentCommands, events_rx, visible, pending, pc,
          result, thread, threadState, threadResult, hwndValid, msgq,
          win_events, events_tx_open, shown, destroyed, joinResult,
          joinCalls, native, accepted, forwarded, taken, nShutdown, errored,
          lastWindowEvent, sent, done, idBase, areas, emitted, clicks,
          clipboard_manager, timers, attempts, supported, updates, fires,
          retryPolls, clipEvents, clipErrors, late, delivered, copySent, copied,
          cw,
          given, bpc, buildResult, menus, tracked, mbuilder, clipboard>>

producerVars == <<notifications, builder, sentCommands>>
facadeVars == <<visible, pending>>
threadVars == <<threadState, threadResult, hwndValid, events_tx_open>>
notifLogs == <<accepted, forwarded, taken>>
tickLogs == <<result, nShutdown, errored>>
orderVars == <<sent, done>>
clipVars == <<clipboard_manager, timers, attempts, supported, updates, fires,
              retryPolls, clipEvents, clipErrors, late, delivered>>
copyVars == <<copySent, copied>>
buildVars == <<cw, given, bpc, buildResult>>
menuVars == <<menus, tracked>>
extVars == <<copyVars, buildVars, menuVars, mbuilder, clipboard>>
\* What CreateWindow and its build() leave alone until the EventLoop is made.
unbuiltVars == <<producerVars, events_rx, facadeVars, pc, tickLogs, msgq,
                 win_events, shown, destroyed, joinResult, native, notifLogs,
                 lastWindowEvent, orderVars, idBase, copyVars, mbuilder, clipboard,
                 emitted, clicks, clipVars, tracked>>

\* ------------------------------------------------------------------ values
\* The fields shownId and seq are not program state: shownId names the
\* notification whose balloon the platform displayed when it raised the signal,
\* seq numbers the events in the order the window thread sent them.
NoEvent == [kind |-> "None", area |-> 0, shownId |-> 0, seq |-> 0]
Ok(kind, area, id, shownId) ==
    [tag |-> "Ok", kind |-> kind, area |-> area, id |-> id, shownId |-> shownId]
\* Variant: an error is handed to the caller as an Event::Error.
Err_as_event(kind) ==
    [tag |-> "Ok", kind |-> "Error", area |-> 0, id |-> 0, shownId |-> 0]

\* tick() returns Err(kind).
Err(kind) == [tag |-> "Err", kind |-> kind, area |-> 0, id |-> 0, shownId |-> 0]
NoResult == [tag |-> "None", kind |-> "None", area |-> 0, id |-> 0, shownId |-> 0]

InputEvent(kind, area, arg) == [kind |-> kind, area |-> area, arg |-> arg]
Msg(message, wParam, lParam, shownId) ==
    [message |-> message, wParam |-> wParam, lParam |-> lParam, shownId |-> shownId]
WindowEvent(kind, area, shownId) ==
    [kind |-> kind, area |-> area, shownId |-> shownId, seq |-> 0]

\* The id counter (AtomicU32) and a NotificationId (u32) are 32 bits wide. A
\* 32-bit value is written as the integer with the same bits in two's
\* complement: 0 .. I32_MAX stand for themselves, and the values above I32_MAX
\* are written I32_MIN .. -1, so that U32_MAX, the largest, is -1.
I32_MAX == 2147483647
I32_MIN == -I32_MAX - 1
U32_MAX == -1

\* The order of two 32-bit values as unsigned numbers.
ULess(x, y) == IF (x >= 0) = (y >= 0) THEN x < y ELSE x >= 0

\* Option<T>
None == <<>>
Some(x) == <<x>>

\* A command as it travels in the channel. The fields from and n are not
\* program state: they name the producer that sent the command and number that
\* producer's commands in the order it sent them.
Tagged(e, p) ==
    [kind |-> e.kind, area |-> e.area, arg |-> e.arg, from |-> p, n |-> sent[p] + 1]

\* ModifyArea: the optional icon and tooltip of the command.
ModifyArea(icon, tooltip) == [icon |-> icon, tooltip |-> tooltip]

\* ModifyMenuItem: the optional check mark and highlight of the command, and
\* the command's argument: the index of the item with the ModifyMenuItem.
ModifyMenuItem(checked, highlight) == [checked |-> checked, highlight |-> highlight]
ItemModify(idx, modify) == [idx |-> idx, modify |-> modify]

\* A tray icon as the platform holds it: the icon and the tooltip last set.
TrayIcon(icon, tooltip) == [icon |-> icon, tooltip |-> tooltip]

\* ------------------------------------------------------------ configuration
\* Number of items of the popup menu of area 0; the other areas have none.
MenuLen == 2
HasPopupMenu(area) == area = 0

\* The mouse buttons of a tray-icon click.
MouseButtons == {"Left", "Right"}

\* PopupMenu: the items pushed, entries and separators alike, and the buttons
\* that open the menu.
PopupMenu(menu, open_menu) == [menu |-> menu, open_menu |-> open_menu]

\* The configuration of the window of the running program: NumAreas areas, of
\* which area 0 has a popup menu of MenuLen entries opened by the right
\* button, and NumIcons icons.
BuiltAreas ==
    [i \in 1..NumAreas |->
        IF HasPopupMenu(i - 1)
        THEN Some(PopupMenu([j \in 1..MenuLen |-> "Item"], {"Right"}))
        ELSE None]

\* The same window with no popup menu on any area.
MenulessAreas == [i \in 1..NumAreas |-> None]

\* The ids a builder with the areas `as` and `n` icons has returned: the id
\* and the position at which the entity was added.
GivenIds(as, n) ==
    {[kind |-> "AreaId", id |-> <<i - 1>>, nth |-> <<i>>] : i \in 1..Len(as)}
      \cup {[kind |-> "IconId", id |-> <<k - 1>>, nth |-> <<k>>] : k \in 1..n}
      \cup UNION {IF as[i] = None THEN {}
                  ELSE {[kind |-> "ItemId", id |-> <<i - 1, j - 1>>, nth |-> <<i, j>>] :
                          j \in 1..Len(as[i][1].menu)} : i \in 1..Len(as)}

\* Variant: the item is inserted at the front of the menu.
InsertMenuItemW_front(items, position, wID) == <<wID>> \o items

\* InsertMenuItemW by position: the item is inserted before the item that is
\* at `position`, or appended when the menu has no such item.
InsertMenuItemW(items, position, wID) ==
    IF position < Len(items)
    THEN SubSeq(items, 1, position) \o <<wID>> \o SubSeq(items, position + 1, Len(items))
    ELSE Append(items, wID)

RECURSIVE build_menu(_, _, _)
\* build_menu: the items from `index` on are added to the native menu, each
\* with its index as wID and at its index as position.
build_menu(items, menu_items, index) ==
    IF index >= Len(menu_items) THEN items
    ELSE build_menu(InsertMenuItemW(items, index, index), menu_items, index + 1)

\* A zeroed MENUITEMINFOW, of which the mask and the state flags are kept;
\* MFS_UNCHECKED and MFS_UNHILITE are 0 and set no flag.
new_menuitem == [fMask |-> {}, fState |-> {}]

modify_default(item, default) ==
    IF default
    THEN [fMask |-> item.fMask \cup {"MIIM_STATE"},
          fState |-> item.fState \cup {"MFS_DEFAULT"}]
    ELSE item

modify_checked(item, checked) ==
    IF checked # None
    THEN [fMask |-> item.fMask \cup {"MIIM_STATE"},
          fState |-> item.fState \cup (IF checked[1] THEN {"MFS_CHECKED"} ELSE {})]
    ELSE item

modify_highlight(item, highlight) ==
    IF highlight # None
    THEN [fMask |-> item.fMask \cup {"MIIM_STATE"},
          fState |-> item.fState \cup (IF highlight[1] THEN {"MFS_HILITE"} ELSE {})]
    ELSE item

apply(item, modify) ==
    modify_highlight(modify_checked(item, modify.checked), modify.highlight)

\* The entries of the configured menu: the first is the default entry and is
\* built highlighted, the others are plain.
ItemDefault(index) == index = 0
ItemInitial(index) ==
    IF index = 0 THEN ModifyMenuItem(None, Some(TRUE)) ELSE ModifyMenuItem(None, None)

\* PopupMenuHandle::add_menu_entry: the MENUITEMINFOW it inserts.
add_menu_entry(default, modify) ==
    apply(modify_default(new_menuitem, default), modify)

\* The state flags the platform holds for an item after InsertMenuItemW or
\* SetMenuItemInfoW with `item`: with MIIM_STATE in the mask the state of the
\* item becomes fState, all of it; without, the state is kept.
MenuItemState(old, item) ==
    IF "MIIM_STATE" \in item.fMask THEN item.fState ELSE old

\* PopupMenuHandle: the native menu built for a PopupMenu, with the handle
\* `hmenu`; `items` holds the wID of its items and `fState` their state
\* flags, by position.
PopupMenuHandle(hmenu, popup_menu) ==
    [hmenu |-> hmenu, open_menu |-> popup_menu.open_menu,
     items |-> build_menu(<<>>, popup_menu.menu, 0),
     fState |-> [j \in 1..Len(popup_menu.menu) |->
                   MenuItemState({}, add_menu_entry(ItemDefault(j - 1),
                                                    ItemInitial(j - 1)))]]

\* The table of popup menus CreateWindow::build makes of the areas; the menu
\* of the i-th area gets the handle i.
BuildMenus(as) ==
    [i \in 1..Len(as) |->
        IF as[i] = None THEN None ELSE Some(PopupMenuHandle(i, as[i][1]))]

\* The state of the program before CreateWindow::build has made the window,
\* for a Sender cloned to the producers `clones` and an id counter at
\* `counter`.
Unbuilt(clones, clipboard_events, counter) ==
    /\ notifications = counter
    /\ idBase = counter
    /\ builder = [p \in clones |-> <<>>]
    /\ sent = [p \in clones |-> 0]
    /\ done = [p \in clones |-> 0]
    /\ emitted = 0
    /\ clicks = 0
    /\ clipboard_manager = clipboard_events
    /\ timers = {}
    /\ attempts = 0
    /\ supported = None
    /\ updates = 0
    /\ fires = 0
    /\ retryPolls = 0
    /\ clipEvents = 0
    /\ clipErrors = 0
    /\ late = FALSE
    /\ delivered = FALSE
    /\ copySent = <<>>
    /\ copied = <<>>
    /\ tracked = <<>>
    /\ mbuilder = [p \in clones |-> <<>>]
    /\ sentCommands = 0
    /\ events_rx = <<>>
    /\ visible = <<>>
    /\ pending = <<>>
    /\ pc = "idle"
    /\ result = NoResult
    /\ threadResult = "None"
    /\ msgq = <<>>
    /\ win_events = <<>>
    /\ shown = {}
    /\ destroyed = FALSE
    /\ joinResult = "None"
    /\ joinCalls = {}
    /\ native = {}
    /\ accepted = <<>>
    /\ forwarded = <<>>
    /\ taken = <<>>
    /\ nShutdown = 0
    /\ errored = FALSE
    /\ lastWindowEvent = NoEvent

\* The state after CreateWindow::build for a window with the areas `as`.
Built(as, clones, clipboard_events, counter) ==
    /\ Unbuilt(clones, clipboard_events, counter)
    /\ cw = [areas |-> as, icons |-> NumIcons]
    /\ given = GivenIds(as, NumIcons)
    /\ bpc = "done"
    /\ buildResult = "Ok"
    /\ menus = BuildMenus(as)
    /\ areas = [a \in ConfiguredAreas |-> TrayIcon(None, None)]
    /\ thread = <<"handle">>
    /\ threadState = "running"
    /\ hwndValid = TRUE
    /\ events_tx_open = TRUE

\* The state after CreateWindow::build for a window with or without clipboard
\* events. The id counter starts at 0; `counter` other than 0 gives the state
\* of a program that has handed out the ids below it and has processed their
\* commands.
Setup(clones, clipboard_events, counter) ==
    Built(BuiltAreas, clones, clipboard_events, counter)

Init == Setup(Producers, FALSE, 0) /\ clipboard = None

\* ---------------------------------------------------------------- platform
\* Shell_NotifyIconW(NIM_MODIFY) on a tray icon: it fails for an icon that is
\* not registered or whose window is gone, and may fail for others.
Shell_NotifyIconW(area) ==
    IF area \in ConfiguredAreas /\ hwndValid THEN {TRUE, FALSE} ELSE {FALSE}

\* SetMenuItemInfoW by position: it fails for a position the menu does not have.
SetMenuItemInfoW(idx) == IF idx < MenuLen THEN {TRUE, FALSE} ELSE {FALSE}

\* PostMessageW on the window handle: it succeeds while the window exists; once
\* the window is gone the handle is stale and the call fails, unless the
\* platform has recycled the handle for another window.
PostMessageW == IF hwndValid THEN {TRUE} ELSE {FALSE, TRUE}

\* Record of a native mutation and of the thread that executed it.
NativeCall(op, caller) == native \cup {[op |-> op, thread |-> caller]}

\* ---------------------------------------------------------------- producers
\* Variant: the command is put at the front of the channel.
tx_send_front(e) == IF pc = "dropped" THEN events_rx ELSE <<e>> \o events_rx

\* The receiving half of the command channel lives in the EventLoop; a send
\* after the EventLoop was dropped fails and the failure is ignored.
tx_send(e) == IF pc = "dropped" THEN events_rx ELSE Append(events_rx, e)

\* The number of ids handed out during the run.
requested == notifications - idBase

\* AtomicU32::fetch_add(1): the new value of the counter, which wraps around
\* from U32_MAX to 0.
fetch_add(counter) == IF counter = I32_MAX THEN I32_MIN ELSE counter + 1

\* Sender::notification: takes the next id and returns a builder.
Sender_notification(p, area) ==
    /\ builder[p] = <<>>
    /\ requested + sentCommands < MaxCommands
    /\ builder' = [builder EXCEPT ![p] = <<[area |-> area, id |-> notifications]>>]
    /\ notifications' = fetch_add(notifications)
    /\ UNCHANGED <<orderVars, areas, idBase, extVars, clipVars, clicks, emitted,
                   sentCommands, events_rx, facadeVars, pc, thread, threadVars, msgq,
                   win_events, shown, destroyed, joinResult, joinCalls,
                   native, notifLogs, tickLogs, lastWindowEvent>>

\* NotificationBuilder::send
NotificationBuilder_send(p) ==
    /\ builder[p] # <<>>
    /\ events_rx' = tx_send(Tagged(InputEvent("Notification", builder[p][1].area,
                                               builder[p][1].id), p))
    /\ sent' = IF pc = "dropped" THEN sent ELSE [sent EXCEPT ![p] = @ + 1]
    /\ builder' = [builder EXCEPT ![p] = <<>>]
    /\ UNCHANGED <<done, areas, idBase, extVars, clipVars, clicks, emitted,
                   notifications, sentCommands, facadeVars, pc, thread, threadVars,
                   msgq, win_events, shown, destroyed, joinResult,
                   joinCalls, native, notifLogs, tickLogs, lastWindowEvent>>

SendCommand(p, e) ==
    /\ requested + sentCommands < MaxCommands
    /\ sentCommands' = sentCommands + 1
    /\ events_rx' = tx_send(Tagged(e, p))
    /\ sent' = IF pc = "dropped" THEN sent ELSE [sent EXCEPT ![p] = @ + 1]
    /\ UNCHANGED <<done, areas, idBase, extVars, clipVars, clicks, emitted,
                   notifications, builder, facadeVars, pc, thread, threadVars,
                   msgq, win_events, shown, destroyed, joinResult,
                   joinCalls, native, notifLogs, tickLogs, lastWindowEvent>>

\* Sender::modify_area(..).send()
ModifyAreaBuilder_send(p, area, icon, tooltip) ==
    SendCommand(p, InputEvent("ModifyArea", area, ModifyArea(icon, tooltip)))

\* Sender::modify_menu_item(..).send()
ModifyMenuItemBuilder_send(p, area, idx) ==
    SendCommand(p, InputEvent("ModifyMenuItem", area,
                              ItemModify(idx, ModifyMenuItem(None, None))))

\* Sender::shutdown
Sender_shutdown(p) == SendCommand(p, InputEvent("Shutdown", 0, 0))

\* ------------------------------------------------------------------ facade
\* Variant: the test is inverted.
is_running == thread # <<>>

\* WindowLoop::is_closed
is_closed == thread = <<>>

\* tick() returns r to its caller.
TickReturn(r) ==
    /\ pc' = "idle"
    /\ result' = r
    /\ nShutdown' = IF r.tag = "Ok" /\ r.kind = "Shutdown" /\ nShutdown < 2
                    THEN nShutdown + 1 ELSE nShutdown
    /\ errored' = (errored \/ (r.tag = "Err" /\ nShutdown = 0))

\* The receiving half of the command channel hands the command at its head to
\* tick().
recv == Head(events_rx)
recv_done == [done EXCEPT ![recv.from] = recv.n]

\* tick() goes round its loop once more.
TickContinue == UNCHANGED <<pc, tickLogs>>

\* Variant: the call is made by the producer that requested the notification.
send_notification_by_producer(caller, area, id, ok) ==
    /\ native' = NativeCall("send_notification", "producer")
    /\ forwarded' = Append(forwarded, id)
    /\ shown' = IF ok THEN shown \cup {[area |-> area, id |-> id]} ELSE shown

\* WindowHandle::send_notification, called by thread `caller`; ok is the
\* outcome of Shell_NotifyIconW. A successful call displays the balloon.
send_notification(caller, area, id, ok) ==
    /\ native' = NativeCall("send_notification", caller)
    /\ forwarded' = Append(forwarded, id)
    /\ shown' = IF ok THEN shown \cup {[area |-> area, id |-> id]} ELSE shown

\* Variant: the IconId is not checked against the table.
icons_get_unchecked(icon) == icon

\* The icon table of the EventLoop, `self.icons.get(..)` on an optional IconId:
\* the handle of the icon, or None for no IconId and for one not in the table.
icons_get(icon) ==
    IF icon # None /\ icon[1] < NumIcons THEN Some(icon[1]) ELSE None

\* WindowHandle::modify_notification, called by thread `caller`; ok is the
\* outcome of Shell_NotifyIconW. The icon and the tooltip are passed to the
\* platform only when they are given.
modify_notification(caller, area, icon, tooltip, ok) ==
    /\ native' = NativeCall("modify_notification", caller)
    /\ areas' = IF ok
                THEN [areas EXCEPT ![area] =
                        TrayIcon(IF icon # None THEN icon ELSE @.icon,
                                 IF tooltip # None THEN tooltip ELSE @.tooltip)]
                ELSE areas

\* PopupMenuHandle::modify_menu_item, called by thread `caller`.
modify_menu_item(caller) == native' = NativeCall("modify_menu_item", caller)

\* Variant: the slot counts as taken only by a notification of the same area.
visible_is_some_per_area(area) == visible # <<>> /\ visible[1].area = area

\* Variant: the test is inverted.
visible_is_none(area) == visible = <<>>

\* The test of the Notification arm: is the visible slot taken?
visible_is_some(area) == visible # <<>>

\* Variant: the notification is put at the front of the queue.
push_front(q, n) == <<n>> \o q

\* VecDeque::push_back on the pending queue.
push_back(q, n) == Append(q, n)

\* EventLoop::tick, the check made before the loop is entered.
tick_enter ==
    /\ pc = "idle"
    /\ IF is_closed
       THEN TickReturn(Err("WindowClosed"))
       ELSE pc' = "select" /\ UNCHANGED tickLogs
    /\ UNCHANGED <<orderVars, areas, idBase, extVars, clipVars, clicks, emitted,
                   producerVars, events_rx, facadeVars, thread, threadVars, msgq,
                   win_events, shown, destroyed, joinResult, joinCalls,
                   native, notifLogs, lastWindowEvent>>

\* EventLoop::tick, InputEvent::ModifyArea
tick_ModifyArea ==
    /\ pc = "select"
    /\ events_rx # <<>>
    /\ recv.kind = "ModifyArea"
    /\ events_rx' = Tail(events_rx)
    /\ done' = recv_done
    /\ LET icon == icons_get(recv.arg.icon) IN
       \E ok \in Shell_NotifyIconW(recv.area) :
          /\ modify_notification("tick", recv.area, icon, recv.arg.tooltip, ok)
          /\ IF ok THEN TickContinue ELSE TickReturn(Err("ModifyNotification"))
    /\ UNCHANGED <<sent, idBase, extVars, clipVars, clicks, emitted,
                   producerVars, facadeVars, thread, threadVars, msgq, win_events,
                   shown, destroyed, joinResult, joinCalls, notifLogs,
                   lastWindowEvent>>

\* Variant: the popup menu of the first area is taken for every area.
popup_menu_of_first(area) == IF menus # <<>> THEN menus[1] ELSE None

\* The two lookups of the ModifyMenuItem arm, `areas.get(area)` and the
\* `popup_menu` of the area: None for an index that is no area and for an area
\* without a popup menu.
popup_menu_of(area) == IF area + 1 \in DOMAIN menus THEN menus[area + 1] ELSE None

\* Variant: the flags of the command are added to the state of the item.
PopupMenuHandle_modify_menu_item_or(area, item_idx, modify) ==
    [menus EXCEPT ![area + 1][1].fState[item_idx + 1] =
        IF modify.checked = None /\ modify.highlight = None THEN @
        ELSE @ \cup apply(new_menuitem, modify).fState]

\* PopupMenuHandle::modify_menu_item on the menu of `area`, for a call of
\* SetMenuItemInfoW that succeeds: the menus afterwards.
PopupMenuHandle_modify_menu_item(area, item_idx, modify) ==
    [menus EXCEPT ![area + 1][1].fState[item_idx + 1] =
        MenuItemState(@, apply(new_menuitem, modify))]

\* EventLoop::tick, InputEvent::ModifyMenuItem
tick_ModifyMenuItem ==
    /\ pc = "select"
    /\ events_rx # <<>>
    /\ recv.kind = "ModifyMenuItem"
    /\ events_rx' = Tail(events_rx)
    /\ done' = recv_done
    /\ LET e == recv IN
       IF popup_menu_of(e.area) = None
       THEN TickContinue /\ UNCHANGED <<native, menus>>
       ELSE /\ modify_menu_item("tick")
            /\ \E ok \in SetMenuItemInfoW(e.arg.idx) :
                  /\ menus' = IF ok THEN PopupMenuHandle_modify_menu_item(
                                            e.area, e.arg.idx, e.arg.modify)
                              ELSE menus
                  /\ IF ok THEN TickContinue
                     ELSE TickReturn(Err("ModifyMenuItem"))
    /\ UNCHANGED <<sent, areas, idBase, copyVars, buildVars, tracked, mbuilder,
                   clipboard, clipVars, clicks, emitted,
                   producerVars, facadeVars, thread, threadVars, msgq, win_events,
                   shown, destroyed, joinResult, joinCalls, notifLogs,
                   lastWindowEvent>>

\* EventLoop::tick, InputEvent::Notification
tick_Notification ==
    /\ pc = "select"
    /\ events_rx # <<>>
    /\ recv.kind = "Notification"
    /\ events_rx' = Tail(events_rx)
    /\ done' = recv_done
    /\ LET e == recv IN
       /\ accepted' = Append(accepted, e.arg)
       /\ IF visible_is_some(e.area)
          THEN /\ pending' = push_back(pending, [area |-> e.area, id |-> e.arg])
               /\ TickContinue
               /\ UNCHANGED <<visible, native, forwarded, shown>>
          ELSE /\ visible' = <<[area |-> e.area, id |-> e.arg]>>
               /\ \E ok \in Shell_NotifyIconW(e.area) :
                     /\ send_notification("tick", e.area, e.arg, ok)
                     /\ IF ok THEN TickContinue
                        ELSE TickReturn(Err("SendNotification"))
               /\ UNCHANGED pending
    /\ UNCHANGED <<sent, areas, idBase, extVars, clipVars, clicks, emitted,
                   producerVars, thread, threadVars, msgq, win_events,
                   destroyed, joinResult, joinCalls, taken, lastWindowEvent>>

\* Variant: tick() ignores the value of join().
JoinReturn_ignored(ctx, jr, wasJoined) ==
    /\ joinResult' = jr
    /\ joinCalls' = joinCalls \cup {[wasJoined |-> wasJoined, result |-> jr]}
    /\ IF ctx = "drop"
       THEN pc' = "dropped" /\ UNCHANGED tickLogs
       ELSE TickReturn(Ok("Shutdown", 0, 0, 0))

\* join() returns jr to its caller: tick() propagates an error and otherwise
\* returns Event::Shutdown; Drop ignores the value.
JoinReturn(ctx, jr, wasJoined) ==
    /\ joinResult' = jr
    /\ joinCalls' = joinCalls \cup {[wasJoined |-> wasJoined, result |-> jr]}
    /\ IF ctx = "drop"
       THEN pc' = "dropped" /\ UNCHANGED tickLogs
       ELSE TickReturn(IF jr = "Ok" THEN Ok("Shutdown", 0, 0, 0) ELSE Err(jr))

\* The position of a caller blocked in thread.join(): ctx is "cmd" for the
\* Shutdown command arm of tick(), "win" for its WindowEvent::Shutdown arm and
\* "drop" for Drop.
JoinPc(ctx) == IF ctx = "cmd" THEN "join_cmd"
               ELSE IF ctx = "win" THEN "join_win" ELSE "join_drop"
JoinCtx == IF pc = "join_cmd" THEN "cmd"
           ELSE IF pc = "join_win" THEN "win" ELSE "drop"

\* Variant: the thread handle is taken and joined, WM_DESTROY is not posted.
join_unposted(ctx) ==
    /\ UNCHANGED msgq
    /\ IF thread = <<>>
       THEN /\ JoinReturn(ctx, "Ok", TRUE)
            /\ UNCHANGED thread
       ELSE /\ thread' = <<>>
            /\ pc' = JoinPc(ctx)
            /\ UNCHANGED <<joinResult, joinCalls, tickLogs>>

\* WindowLoop::join up to the point where it blocks in thread.join(): it posts
\* WM_DESTROY, then takes the thread handle.
join(ctx) ==
    \E posted \in PostMessageW :
       /\ msgq' = IF posted /\ hwndValid
                  THEN Append(msgq, Msg("WM_DESTROY", 0, "None", 0)) ELSE msgq
       /\ IF ~posted
          THEN /\ JoinReturn(ctx, "PostMessageDestroy", is_closed)
               /\ UNCHANGED thread
          ELSE IF thread = <<>>
          THEN /\ JoinReturn(ctx, "Ok", TRUE)
               /\ UNCHANGED thread
          ELSE /\ thread' = <<>>
               /\ pc' = JoinPc(ctx)
               /\ UNCHANGED <<joinResult, joinCalls, tickLogs>>

\* WindowLoop::join, the rest: thread.join() returns once the window thread has
\* exited, and the thread's result is mapped to the result of join().
join_wait ==
    /\ pc \in {"join_cmd", "join_win", "join_drop"}
    /\ threadState = "exited"
    /\ JoinReturn(JoinCtx, IF threadResult = "Ok" THEN "Ok" ELSE "ThreadError", FALSE)
    /\ UNCHANGED <<orderVars, areas, idBase, extVars, clipVars, clicks, emitted,
                   producerVars, events_rx, facadeVars, thread, threadVars, msgq,
                   win_events, shown, destroyed, native, notifLogs,
                   lastWindowEvent>>

\* EventLoop::tick, InputEvent::Shutdown
tick_Shutdown ==
    /\ pc = "select"
    /\ events_rx # <<>>
    /\ recv.kind = "Shutdown"
    /\ events_rx' = Tail(events_rx)
    /\ done' = recv_done
    /\ join("cmd")
    /\ UNCHANGED <<sent, areas, idBase, extVars, clipVars, clicks, emitted,
                   producerVars, facadeVars, threadVars, win_events, shown,
                   destroyed, native, notifLogs, lastWindowEvent>>

\* impl Drop for EventLoop
Drop ==
    /\ pc = "idle"
    /\ join("drop")
    /\ UNCHANGED <<orderVars, areas, idBase, extVars, clipVars, clicks, emitted,
                   producerVars, events_rx, facadeVars, threadVars, win_events,
                   shown, destroyed, native, notifLogs, lastWindowEvent>>

\* Variant: a closed channel is awaited like an empty one.
WindowLoop_tick_ready_open_only == win_events # <<>>

\* WindowLoop::tick: the next event of the channel, or Shutdown once the
\* channel is closed and drained; it is pending otherwise.
WindowLoop_tick_ready == win_events # <<>> \/ ~events_tx_open
WindowLoop_tick ==
    IF win_events # <<>> THEN Head(win_events) ELSE WindowEvent("Shutdown", 0, 0)
WindowLoop_tick_rest == IF win_events # <<>> THEN Tail(win_events) ELSE win_events

\* Variant: an empty slot yields the default ids.
take_notification_result_or_default(ok) ==
    IF visible = <<>> THEN [err |-> "None", area |-> 0, id |-> 0]
    ELSE IF pending # <<>> /\ ~ok
    THEN [err |-> "SendNotification", area |-> 0, id |-> 0]
    ELSE [err |-> "None", area |-> visible[1].area, id |-> visible[1].id]

\* Variant: the id of the promoted notification shadows the one taken.
take_notification_result_shadowed(ok) ==
    IF visible = <<>> THEN [err |-> "MissingNotification", area |-> 0, id |-> 0]
    ELSE IF pending # <<>> /\ ~ok
    THEN [err |-> "SendNotification", area |-> 0, id |-> 0]
    ELSE IF pending # <<>>
    THEN [err |-> "None", area |-> Head(pending).area, id |-> Head(pending).id]
    ELSE [err |-> "None", area |-> visible[1].area, id |-> visible[1].id]

\* EventLoop::take_notification, the value it returns; ok is the outcome of the
\* send_notification call it makes when a notification is pending.
take_notification_result(ok) ==
    IF visible = <<>> THEN [err |-> "MissingNotification", area |-> 0, id |-> 0]
    ELSE IF pending # <<>> /\ ~ok
    THEN [err |-> "SendNotification", area |-> 0, id |-> 0]
    ELSE [err |-> "None", area |-> visible[1].area, id |-> visible[1].id]

\* Variant: the visible slot is emptied and nothing is promoted.
take_notification_no_promote(ok) ==
    IF visible = <<>>
    THEN UNCHANGED <<visible, pending, taken, native, forwarded, shown>>
    ELSE /\ taken' = Append(taken, visible[1].id)
         /\ visible' = <<>>
         /\ UNCHANGED <<pending, native, forwarded, shown>>

\* EventLoop::take_notification, its effect on the EventLoop and the window.
take_notification(ok) ==
    IF visible = <<>>
    THEN UNCHANGED <<visible, pending, taken, native, forwarded, shown>>
    ELSE /\ taken' = Append(taken, visible[1].id)
         /\ IF pending # <<>>
            THEN /\ visible' = <<Head(pending)>>
                 /\ pending' = Tail(pending)
                 /\ send_notification("tick", Head(pending).area, Head(pending).id, ok)
            ELSE /\ visible' = <<>>
                 /\ UNCHANGED <<pending, native, forwarded, shown>>

\* The outcomes of the native call take_notification makes, if it makes one.
take_notification_outcomes ==
    IF visible # <<>> /\ pending # <<>>
    THEN Shell_NotifyIconW(Head(pending).area) ELSE {TRUE}

\* EventLoop::tick, WindowEvent::NotificationClicked / NotificationDismissed
tick_NotificationSignal ==
    /\ pc = "select"
    /\ WindowLoop_tick_ready
    /\ WindowLoop_tick.kind \in {"NotificationClicked", "NotificationDismissed"}
    /\ win_events' = WindowLoop_tick_rest
    /\ lastWindowEvent' = WindowLoop_tick
    /\ \E ok \in take_notification_outcomes :
          /\ take_notification(ok)
          /\ LET r == take_notification_result(ok)
                 e == WindowLoop_tick
             IN  TickReturn(IF r.err = "None"
                            THEN Ok(e.kind, r.area, r.id, e.shownId)
                            ELSE Err(r.err))
    /\ UNCHANGED <<orderVars, areas, idBase, extVars, clipVars, clicks, emitted,
                   producerVars, events_rx, thread, threadVars, msgq,
                   destroyed, joinResult, joinCalls, accepted>>

\* EventLoop::tick, the window events it returns as they are: Clipboard,
\* IconClicked and Error.
tick_WindowEvent ==
    /\ pc = "select"
    /\ WindowLoop_tick_ready
    /\ WindowLoop_tick.kind \in {"Clipboard", "IconClicked", "Error"}
    /\ win_events' = WindowLoop_tick_rest
    /\ lastWindowEvent' = WindowLoop_tick
    /\ TickReturn(Ok(WindowLoop_tick.kind, WindowLoop_tick.area, 0, 0))
    /\ UNCHANGED <<producerVars, events_rx, facadeVars, thread, threadVars, msgq,
                   shown, destroyed, joinResult, joinCalls, native, notifLogs,
                   orderVars, areas, idBase, extVars, emitted, clicks, clipVars>>

\* EventLoop::tick, WindowEvent::Shutdown
tick_WindowShutdown ==
    /\ pc = "select"
    /\ WindowLoop_tick_ready
    /\ WindowLoop_tick.kind = "Shutdown"
    /\ win_events' = WindowLoop_tick_rest
    /\ lastWindowEvent' = WindowLoop_tick
    /\ join("win")
    /\ UNCHANGED <<orderVars, areas, idBase, extVars, clipVars, clicks, emitted,
                   producerVars, events_rx, facadeVars, threadVars, shown,
                   destroyed, native, notifLogs>>

\* ------------------------------------------------------------ window thread
\* Variant: the event names the first area whatever icon the message is for.
MenuManager_dispatch_first_area(m) ==
    IF m.lParam = "NIN_BALLOONUSERCLICK"
    THEN WindowEvent("NotificationClicked", 0, m.shownId)
    ELSE IF m.lParam = "NIN_BALLOONTIMEOUT"
    THEN WindowEvent("NotificationDismissed", 0, m.shownId)
    ELSE WindowEvent("IconClicked", m.wParam, 0)

\* MenuManager::dispatch: the event sent for a tray-icon callback message.
MenuManager_dispatch(m) ==
    IF m.lParam = "NIN_BALLOONUSERCLICK"
    THEN WindowEvent("NotificationClicked", m.wParam, m.shownId)
    ELSE IF m.lParam = "NIN_BALLOONTIMEOUT"
    THEN WindowEvent("NotificationDismissed", m.wParam, m.shownId)
    ELSE WindowEvent("IconClicked", m.wParam, 0)

\* GetCursorPos succeeds or fails.
GetCursorPos == {TRUE, FALSE}

\* MouseButtons::test: the button is one of the set.
MouseButtons_test(open_menu, button) == button \in open_menu

\* Variant: the menu is tracked whatever button was released.
MenuManager_track_any(m, cursor) ==
    LET button == IF m.lParam = "WM_LBUTTONUP" THEN "Left" ELSE "Right"
        i == m.wParam + 1
    IN  IF /\ m.lParam \in {"WM_LBUTTONUP", "WM_RBUTTONUP"}
           /\ i \in DOMAIN menus
           /\ menus[i] # None
           /\ cursor
        THEN Append(tracked, [area |-> m.wParam, button |-> button,
                              hmenu |-> menus[i][1].hmenu])
        ELSE tracked

\* MenuManager::dispatch, the rest of the mouse-up arm: the TrackPopupMenu
\* calls made so far, with the one this message leads to, if any.
MenuManager_track(m, cursor) ==
    LET button == IF m.lParam = "WM_LBUTTONUP" THEN "Left" ELSE "Right"
        i == m.wParam + 1
    IN  IF /\ m.lParam \in {"WM_LBUTTONUP", "WM_RBUTTONUP"}
           /\ i \in DOMAIN menus
           /\ menus[i] # None
           /\ MouseButtons_test(menus[i][1].open_menu, button)
           /\ cursor
        THEN Append(tracked, [area |-> m.wParam, button |-> button,
                              hmenu |-> menus[i][1].hmenu])
        ELSE tracked

\* Variant: the event is put at the front of the channel.
events_tx_send_front(e) == <<[e EXCEPT !.seq = emitted + 1]>> \o win_events

\* events_tx.send(e) by the window thread.
events_tx_send(e) == Append(win_events, [e EXCEPT !.seq = emitted + 1])

\* One iteration of the message loop for a message the dispatcher consumes.
WindowThread_dispatch ==
    /\ threadState = "running"
    /\ msgq # <<>>
    /\ Head(msgq).message = "ICON_ID"
    /\ msgq' = Tail(msgq)
    /\ win_events' = events_tx_send(MenuManager_dispatch(Head(msgq)))
    /\ emitted' = emitted + 1
    /\ \E cursor \in GetCursorPos : tracked' = MenuManager_track(Head(msgq), cursor)
    /\ UNCHANGED <<orderVars, areas, idBase, copyVars, buildVars, menus, mbuilder, clipboard,
                   clipVars, clicks,
                   producerVars, events_rx, facadeVars, pc, tickLogs, thread,
                   threadVars, shown, destroyed, joinResult, joinCalls,
                   native, notifLogs, lastWindowEvent>>

\* The iteration that takes WM_DESTROY: the loop is left, the tray icon is
\* deleted and the thread returns. The platform destroys the windows of a
\* thread that exits, and events_tx is dropped with the thread's closure.
WindowThread_exit ==
    /\ threadState = "running"
    /\ msgq # <<>>
    /\ Head(msgq).message = "WM_DESTROY"
    /\ \E deleted \in BOOLEAN :
          threadResult' = IF deleted THEN "Ok" ELSE "DeleteIcon"
    /\ native' = NativeCall("delete_icon", "window")
    /\ threadState' = "exited"
    /\ hwndValid' = FALSE
    /\ events_tx_open' = FALSE
    /\ msgq' = <<>>
    /\ shown' = {}
    /\ UNCHANGED <<orderVars, areas, idBase, extVars, clipVars, clicks, emitted,
                   producerVars, events_rx, facadeVars, pc, tickLogs, thread,
                   win_events, destroyed, joinResult, joinCalls,
                   notifLogs, lastWindowEvent>>

\* -------------------------------------------------------- clipboard manager
\* The attempts the retry timer is allowed.
RETRY_MAX_ATTEMPTS == 10

\* SetTimer and KillTimer on the window: a timer that is set fires until it is
\* killed; setting a timer that is set restarts it.
SetTimer(ts, id) == ts \cup {id}
KillTimer(ts, id) == ts \ {id}

\* ClipboardFormat: the three formats the manager reads and one it does not.
ClipboardFormats == {"DIBV5", "TEXT", "UNICODETEXT", "LOCALE"}

\* The clipboard as the platform holds it: the formats in the order in which
\* it enumerates them, and the bytes of the data of the format that is read.
Clipboard(formats, data) == [formats |-> formats, data |-> data]

\* The longest enumeration of formats.
MaxFormats == 2

\* The enumerations of at most MaxFormats formats, none of them twice.
Enumerations ==
    {fs \in UNION {[1..n -> ClipboardFormats] : n \in 0..MaxFormats} :
        \A i, j \in DOMAIN fs : i # j => fs[i] # fs[j]}

\* The data: "A" with its terminator, the byte 0xFF with a terminator (as wide
\* data the one unit 0x00FF), and the bytes of the unit 0xD800.
ClipboardData == {<<65, 0>>, <<255, 0>>, <<0, 216>>}

\* Clipboard::updated_formats: the formats the platform enumerates.
Clipboard_updated_formats ==
    IF clipboard = None THEN Enumerations ELSE {clipboard[1].formats}

\* GetClipboardData with GlobalLock: the bytes of the data.
Lock_as_slice == IF clipboard = None THEN ClipboardData ELSE {clipboard[1].data}

\* Lock::as_wide_slice: the bytes taken two by two as 16-bit units.
as_wide_slice(bytes) ==
    [i \in 1..(Len(bytes) \div 2) |-> bytes[2 * i - 1] + 256 * bytes[2 * i]]

\* The slice pattern [head @ .., 0]: one trailing zero is left out.
strip_nul(data) ==
    IF data # <<>> /\ data[Len(data)] = 0
    THEN SubSeq(data, 1, Len(data) - 1)
    ELSE data

\* str::from_utf8 is Ok. The data of the model holds no continuation byte, so
\* a byte of 0x80 or more is never part of a valid sequence.
from_utf8(bytes) == \A i \in DOMAIN bytes : bytes[i] < 128

\* String::from_utf16 is Ok. The data of the model holds at most one unit, so
\* a surrogate is never part of a pair.
from_utf16(units) ==
    \A i \in DOMAIN units : units[i] < 55296 \/ units[i] > 57343

\* ClipboardManager::poll_clipboard, the match on the format: TRUE when the
\* data decodes to a ClipboardEvent.
decode(format, data) ==
    CASE format = "DIBV5" -> TRUE
      [] format = "TEXT" -> from_utf8(strip_nul(data))
      [] format = "UNICODETEXT" -> from_utf16(strip_nul(as_wide_slice(data)))
      [] OTHER -> FALSE

\* ClipboardManager::populate_formats: the first of the enumerated formats
\* that is one of DIBV5, TEXT and UNICODETEXT.
RECURSIVE populate_formats(_)
populate_formats(formats) ==
    IF formats = <<>> THEN None
    ELSE IF Head(formats) \in {"DIBV5", "TEXT", "UNICODETEXT"}
         THEN Some(Head(formats))
         ELSE populate_formats(Tail(formats))

\* Variant: self.supported is left as it is when the data is locked.
poll_clipboard_keep(sup, opened, locked, data) ==
    IF ~opened THEN [result |-> "Err", supported |-> sup]
    ELSE IF sup = None THEN [result |-> "None", supported |-> sup]
    ELSE IF ~locked THEN [result |-> "Err", supported |-> sup]
    ELSE [result |-> IF decode(sup[1], data) THEN "Some" ELSE "None",
          supported |-> sup]

\* Variant: data that does not decode is an error of the poll.
poll_clipboard_err(sup, opened, locked, data) ==
    IF ~opened THEN [result |-> "Err", supported |-> sup]
    ELSE IF sup = None THEN [result |-> "None", supported |-> sup]
    ELSE IF ~locked THEN [result |-> "Err", supported |-> sup]
    ELSE [result |-> IF decode(sup[1], data) THEN "Some" ELSE "Err",
          supported |-> None]

\* ClipboardManager::poll_clipboard with `sup` for self.supported; opened and
\* locked are the outcomes of opening the clipboard and of getting and locking
\* the data. It returns Err, Ok(None) or Ok(Some(event)), and clears
\* self.supported once the data is locked.
poll_clipboard(sup, opened, locked, data) ==
    IF ~opened THEN [result |-> "Err", supported |-> sup]
    ELSE IF sup = None THEN [result |-> "None", supported |-> sup]
    ELSE IF ~locked THEN [result |-> "Err", supported |-> sup]
    ELSE [result |-> IF decode(sup[1], data) THEN "Some" ELSE "None",
          supported |-> None]

\* The values poll_clipboard can return for `sup`.
PollOutcomes(sup) ==
    {poll_clipboard(sup, o, l, d) :
        o \in BOOLEAN, l \in BOOLEAN, d \in Lock_as_slice}

\* The window thread sends a Clipboard or an Error event, or nothing.
ClipboardManager_send(kind) ==
    IF kind = "Nothing"
    THEN UNCHANGED <<win_events, emitted, clipEvents, clipErrors, delivered>>
    ELSE /\ win_events' = events_tx_send(WindowEvent(kind, 0, 0))
         /\ delivered' = (delivered \/ kind = "Clipboard")
         /\ emitted' = emitted + 1
         /\ clipEvents' = IF kind = "Clipboard" THEN clipEvents + 1 ELSE clipEvents
         /\ clipErrors' = IF kind = "Error" THEN clipErrors + 1 ELSE clipErrors

\* GetMessageW hands out a posted message before a timer message: a timer
\* message is made up only when the queue holds no posted message.
TimerMessage(id) ==
    /\ threadState = "running"
    /\ clipboard_manager
    /\ id \in timers
    /\ msgq = <<>>

\* The clipboard changes: the platform sends WM_CLIPBOARDUPDATE to the window
\* registered as a listener, and window_proc posts it to the message queue.
ClipboardUpdate ==
    /\ hwndValid
    /\ clipboard_manager
    /\ updates < MaxUpdates
    /\ updates' = updates + 1
    /\ late' = (late \/ fires > 0)
    /\ delivered' = FALSE
    /\ msgq' = Append(msgq, Msg("WM_CLIPBOARDUPDATE", 0, "None", 0))
    /\ UNCHANGED <<producerVars, events_rx, facadeVars, pc, tickLogs, thread,
                   threadVars, win_events, shown, destroyed, joinResult,
                   joinCalls, native, notifLogs, lastWindowEvent, orderVars,
                   areas, idBase, extVars, emitted, clicks, clipboard_manager, timers,
                   attempts, supported, fires, retryPolls, clipEvents,
                   clipErrors>>

\* Variant: the clipboard is polled for every WM_CLIPBOARDUPDATE.
ClipboardManager_dispatch_update_polls ==
    /\ threadState = "running"
    /\ clipboard_manager
    /\ msgq # <<>>
    /\ Head(msgq).message = "WM_CLIPBOARDUPDATE"
    /\ msgq' = Tail(msgq)
    /\ \E populated \in {populate_formats(fs) : fs \in Clipboard_updated_formats} :
       \E r \in PollOutcomes(populated) :
          /\ supported' = r.supported
          /\ ClipboardManager_send(IF r.result = "Some" THEN "Clipboard" ELSE "Nothing")
    /\ UNCHANGED <<producerVars, events_rx, facadeVars, pc, tickLogs, thread,
                   threadVars, shown, destroyed, joinResult,
                   joinCalls, native, notifLogs, lastWindowEvent, orderVars,
                   areas, idBase, extVars, clicks, clipboard_manager, timers, attempts,
                   updates, fires, retryPolls, late>>

\* ClipboardManager::dispatch, WM_CLIPBOARDUPDATE: the debounce timer is set.
ClipboardManager_dispatch_update ==
    /\ threadState = "running"
    /\ clipboard_manager
    /\ msgq # <<>>
    /\ Head(msgq).message = "WM_CLIPBOARDUPDATE"
    /\ msgq' = Tail(msgq)
    /\ timers' = SetTimer(timers, "CLIPBOARD_DEBOUNCE_TIMER")
    /\ UNCHANGED <<producerVars, events_rx, facadeVars, pc, tickLogs, thread,
                   threadVars, win_events, shown, destroyed, joinResult,
                   joinCalls, native, notifLogs, lastWindowEvent, orderVars,
                   areas, idBase, extVars, emitted, clicks, clipboard_manager, attempts,
                   supported, updates, fires, retryPolls, clipEvents,
                   clipErrors, late, delivered>>

\* ClipboardManager::dispatch, WM_TIMER of the debounce timer: the timer is
\* killed, populate_formats sets self.supported and the clipboard is polled.
\* A failed poll sets the retry timer and attempts to 1.
ClipboardManager_dispatch_debounce ==
    /\ TimerMessage("CLIPBOARD_DEBOUNCE_TIMER")
    /\ fires' = fires + 1
    /\ \E populated \in {populate_formats(fs) : fs \in Clipboard_updated_formats} :
       \E r \in PollOutcomes(populated) :
          /\ supported' = r.supported
          /\ IF r.result = "Err"
             THEN /\ timers' = SetTimer(KillTimer(timers, "CLIPBOARD_DEBOUNCE_TIMER"),
                                        "CLIPBOARD_RETRY_TIMER")
                  /\ attempts' = 1
                  /\ retryPolls' = 0
                  /\ ClipboardManager_send("Nothing")
             ELSE /\ timers' = KillTimer(timers, "CLIPBOARD_DEBOUNCE_TIMER")
                  /\ ClipboardManager_send(IF r.result = "Some" THEN "Clipboard"
                                           ELSE "Nothing")
                  /\ UNCHANGED <<attempts, retryPolls>>
    /\ UNCHANGED <<producerVars, events_rx, facadeVars, pc, tickLogs, thread,
                   threadVars, msgq, shown, destroyed, joinResult,
                   joinCalls, native, notifLogs, lastWindowEvent, orderVars,
                   areas, idBase, extVars, clicks, clipboard_manager, updates, late>>

\* Variant: a poll that succeeds leaves the attempts as they are.
handle_timer_keeps_attempts(r) ==
    /\ supported' = r.supported
    /\ UNCHANGED threadVars
    /\ IF r.result = "Err"
       THEN IF attempts >= RETRY_MAX_ATTEMPTS
            THEN /\ timers' = KillTimer(timers, "CLIPBOARD_RETRY_TIMER")
                 /\ attempts' = 0
                 /\ ClipboardManager_send("Error")
            ELSE /\ timers' = IF attempts = 0
                              THEN SetTimer(timers, "CLIPBOARD_RETRY_TIMER")
                              ELSE timers
                 /\ attempts' = attempts + 1
                 /\ ClipboardManager_send("Nothing")
       ELSE /\ timers' = KillTimer(timers, "CLIPBOARD_RETRY_TIMER")
            /\ attempts' = attempts
            /\ ClipboardManager_send(IF r.result = "Some" THEN "Clipboard"
                                     ELSE "Nothing")

\* Variant: the bound is tested with > in place of >=.
handle_timer_gt(r) ==
    /\ supported' = r.supported
    /\ UNCHANGED threadVars
    /\ IF r.result = "Err"
       THEN IF attempts > RETRY_MAX_ATTEMPTS
            THEN /\ timers' = KillTimer(timers, "CLIPBOARD_RETRY_TIMER")
                 /\ attempts' = 0
                 /\ ClipboardManager_send("Error")
            ELSE /\ timers' = IF attempts = 0
                              THEN SetTimer(timers, "CLIPBOARD_RETRY_TIMER")
                              ELSE timers
                 /\ attempts' = attempts + 1
                 /\ ClipboardManager_send("Nothing")
       ELSE /\ timers' = KillTimer(timers, "CLIPBOARD_RETRY_TIMER")
            /\ attempts' = 0
            /\ ClipboardManager_send(IF r.result = "Some" THEN "Clipboard"
                                     ELSE "Nothing")

\* Variant: a poll that fails when the attempts are used up ends the thread.
handle_timer_fatal(r) ==
    /\ supported' = r.supported
    /\ IF r.result = "Err"
       THEN IF attempts >= RETRY_MAX_ATTEMPTS
            THEN /\ timers' = KillTimer(timers, "CLIPBOARD_RETRY_TIMER")
                 /\ attempts' = 0
                 /\ ClipboardManager_send("Error")
                 /\ threadState' = "exited"
                 /\ events_tx_open' = FALSE
                 /\ UNCHANGED <<threadResult, hwndValid>>
            ELSE /\ timers' = IF attempts = 0
                              THEN SetTimer(timers, "CLIPBOARD_RETRY_TIMER")
                              ELSE timers
                 /\ attempts' = attempts + 1
                 /\ ClipboardManager_send("Nothing")
                 /\ UNCHANGED threadVars
       ELSE /\ timers' = KillTimer(timers, "CLIPBOARD_RETRY_TIMER")
            /\ attempts' = 0
            /\ ClipboardManager_send(IF r.result = "Some" THEN "Clipboard"
                                     ELSE "Nothing")
            /\ UNCHANGED threadVars

\* ClipboardManager::handle_timer; r is what poll_clipboard returned. The
\* function returns to the message loop in every case.
handle_timer(r) ==
    /\ supported' = r.supported
    /\ UNCHANGED threadVars
    /\ IF r.result = "Err"
       THEN IF attempts >= RETRY_MAX_ATTEMPTS
            THEN /\ timers' = KillTimer(timers, "CLIPBOARD_RETRY_TIMER")
                 /\ attempts' = 0
                 /\ ClipboardManager_send("Error")
            ELSE /\ timers' = IF attempts = 0
                              THEN SetTimer(timers, "CLIPBOARD_RETRY_TIMER")
                              ELSE timers
                 /\ attempts' = attempts + 1
                 /\ ClipboardManager_send("Nothing")
       ELSE /\ timers' = KillTimer(timers, "CLIPBOARD_RETRY_TIMER")
            /\ attempts' = 0
            /\ ClipboardManager_send(IF r.result = "Some" THEN "Clipboard"
                                     ELSE "Nothing")

\* ClipboardManager::dispatch, WM_TIMER of the retry timer.
ClipboardManager_dispatch_retry ==
    /\ TimerMessage("CLIPBOARD_RETRY_TIMER")
    /\ retryPolls' = retryPolls + 1
    /\ \E r \in PollOutcomes(supported) : handle_timer(r)
    /\ UNCHANGED <<producerVars, events_rx, facadeVars, pc, tickLogs, thread,
                   msgq, shown, destroyed, joinResult,
                   joinCalls, native, notifLogs, lastWindowEvent, orderVars,
                   areas, idBase, extVars, clicks, clipboard_manager, updates, fires,
                   late>>

\* ---------------------------------------------------------------- platform
\* The user clicks a tray icon: the platform sends the tray-icon callback
\* message with the mouse message, which window_proc posts to the queue.
IconMouseUp(area, lParam) ==
    /\ hwndValid
    /\ clicks < MaxClicks
    /\ clicks' = clicks + 1
    /\ msgq' = Append(msgq, Msg("ICON_ID", area, lParam, 0))
    /\ UNCHANGED <<producerVars, events_rx, facadeVars, pc, tickLogs, thread,
                   threadVars, win_events, shown, destroyed, joinResult,
                   joinCalls, native, notifLogs, lastWindowEvent, orderVars,
                   areas, idBase, extVars, emitted, clipVars>>

\* The user clicks a displayed balloon or the balloon times out: the platform
\* removes it and sends the tray-icon callback message, which window_proc
\* posts to the message queue.
BalloonSignal(b, lParam) ==
    /\ hwndValid
    /\ b \in shown
    /\ shown' = shown \ {b}
    /\ msgq' = Append(msgq, Msg("ICON_ID", b.area, lParam, b.id))
    /\ UNCHANGED <<orderVars, areas, idBase, extVars, clipVars, clicks, emitted,
                   producerVars, events_rx, facadeVars, pc, tickLogs, thread,
                   threadVars, win_events, destroyed, joinResult,
                   joinCalls, native, notifLogs, lastWindowEvent>>

\* The shell sends the balloon callback of a tray icon for a balloon that is
\* not the one on display, as for a notification clicked in the notification
\* history after its balloon timed out: window_proc posts it like any other.
StrayBalloonSignal(area, lParam) ==
    /\ hwndValid
    /\ clicks < MaxClicks
    /\ clicks' = clicks + 1
    /\ msgq' = Append(msgq, Msg("ICON_ID", area, lParam, 0))
    /\ UNCHANGED <<producerVars, events_rx, facadeVars, pc, tickLogs, thread,
                   threadVars, win_events, shown, destroyed, joinResult,
                   joinCalls, native, notifLogs, lastWindowEvent, orderVars,
                   areas, idBase, extVars, emitted, clipVars>>

\* The window is destroyed from outside the program: window_proc posts the
\* WM_DESTROY it receives to the message queue.
ExternalDestroy ==
    /\ hwndValid
    /\ ~destroyed
    /\ destroyed' = TRUE
    /\ msgq' = Append(msgq, Msg("WM_DESTROY", 0, "None", 0))
    /\ UNCHANGED <<orderVars, areas, idBase, extVars, clipVars, clicks, emitted,
                   producerVars, events_rx, facadeVars, pc, tickLogs, thread,
                   threadVars, win_events, shown, joinResult, joinCalls,
                   native, notifLogs, lastWindowEvent>>

\* ------------------------------------------------------------ specification
Next ==
    \/ \E p \in Producers, area \in AreaInputs : Sender_notification(p, area)
    \/ \E p \in Producers : NotificationBuilder_send(p)
    \/ \E p \in Producers, area \in {0, NumAreas} :
          ModifyAreaBuilder_send(p, area, None, None)
    \/ \E p \in Producers, area \in {0, NumAreas} :
          ModifyMenuItemBuilder_send(p, area, 0)
    \/ \E p \in Producers : Sender_shutdown(p)
    \/ tick_enter
    \/ tick_ModifyArea
    \/ tick_ModifyMenuItem
    \/ tick_Notification
    \/ tick_Shutdown
    \/ tick_NotificationSignal
    \/ tick_WindowShutdown
    \/ join_wait
    \/ Drop
    \/ WindowThread_dispatch
    \/ WindowThread_exit
    \/ \E b \in shown, lParam \in {"NIN_BALLOONUSERCLICK", "NIN_BALLOONTIMEOUT"} :
          BalloonSignal(b, lParam)
    \/ ExternalDestroy

Spec == Init /\ [][Next]_vars

\* The notification queue with a shell that also sends balloon callbacks for
\* balloons that are not on display.
NextStray ==
    \/ \E p \in Producers : Sender_notification(p, 0)
    \/ \E p \in Producers : NotificationBuilder_send(p)
    \/ tick_enter
    \/ tick_Notification
    \/ tick_NotificationSignal
    \/ WindowThread_dispatch
    \/ \E b \in shown : BalloonSignal(b, "NIN_BALLOONTIMEOUT")
    \/ \E lParam \in {"NIN_BALLOONUSERCLICK", "NIN_BALLOONTIMEOUT"} :
          StrayBalloonSignal(0, lParam)

SpecStray == Init /\ [][NextStray]_vars

\* The window with clipboard events: the platform raises clipboard-update
\* signals and mouse clicks, the window thread runs its loop and the owner of
\* the EventLoop calls tick().
InitClip == Setup(Producers, TRUE, 0) /\ clipboard = None

NextClip ==
    \/ ClipboardUpdate
    \/ ClipboardManager_dispatch_update
    \/ ClipboardManager_dispatch_debounce
    \/ ClipboardManager_dispatch_retry
    \/ \E area \in ConfiguredAreas, lParam \in {"WM_LBUTTONUP"} :
          IconMouseUp(area, lParam)
    \/ WindowThread_dispatch
    \/ WindowThread_exit
    \/ ExternalDestroy
    \/ tick_enter
    \/ tick_WindowEvent
    \/ tick_WindowShutdown
    \/ join_wait

SpecClip == InitClip /\ [][NextClip]_vars

\* The clipboard manager alone, for every clipboard of Enumerations and
\* ClipboardData: the clipboard holds the same formats and data at each poll.
InitFormats ==
    /\ Setup(Producers, TRUE, 0)
    /\ \E fs \in Enumerations, data \in ClipboardData :
          clipboard = Some(Clipboard(fs, data))

NextFormats ==
    \/ ClipboardUpdate
    \/ ClipboardManager_dispatch_update
    \/ ClipboardManager_dispatch_debounce
    \/ ClipboardManager_dispatch_retry
    \/ tick_enter
    \/ tick_WindowEvent

SpecFormats == InitFormats /\ [][NextFormats]_vars

\* The commands a ModifyArea builder is made to send: an IconId that is not in
\* the icon table together with a tooltip, and an IconId of the table alone.
ModifyAreaInputs ==
    {ModifyArea(Some(NumIcons), Some("tip")), ModifyArea(Some(0), None)}

\* Two producers hold clones of the Sender and send commands of every kind
\* while the owner of the EventLoop calls tick(). The id counter is at 0, or
\* at U32_MAX as in a program that has handed out the ids below U32_MAX.
InitCmd ==
    /\ \E counter \in {0, U32_MAX} : Setup(Clones, FALSE, counter)
    /\ clipboard = None

NextCmd ==
    \/ \E p \in Clones : Sender_notification(p, 0)
    \/ \E p \in Clones : NotificationBuilder_send(p)
    \/ \E p \in Clones, m \in ModifyAreaInputs :
          ModifyAreaBuilder_send(p, 0, m.icon, m.tooltip)
    \/ \E p \in Clones, idx \in {0, MenuLen} : ModifyMenuItemBuilder_send(p, 0, idx)
    \/ \E p \in Clones : Sender_shutdown(p)
    \/ tick_enter
    \/ tick_ModifyArea
    \/ tick_ModifyMenuItem
    \/ tick_Notification
    \/ tick_Shutdown
    \/ join_wait
    \/ WindowThread_exit

SpecCmd == InitCmd /\ [][NextCmd]_vars

\* Shutting down: commands, clicks on the tray icon and the destruction of the
\* window from outside, with a window thread that is scheduled as long as it
\* has a message to take and a thread.join() that returns once the thread has
\* exited.
NextJoin ==
    \/ \E p \in Producers : Sender_shutdown(p)
    \/ tick_enter
    \/ tick_Shutdown
    \/ tick_WindowEvent
    \/ tick_WindowShutdown
    \/ join_wait
    \/ Drop
    \/ IconMouseUp(0, "WM_LBUTTONUP")
    \/ ExternalDestroy
    \/ WindowThread_dispatch
    \/ WindowThread_exit

SpecJoin ==
    /\ Init
    /\ [][NextJoin]_vars
    /\ WF_vars(WindowThread_dispatch)
    /\ WF_vars(WindowThread_exit)
    /\ WF_vars(join_wait)

\* ----------------------------------------------------------------- builders
\* Every variable but the modify builders the producers hold.
builderFrame == <<orderVars, areas, idBase, copyVars, buildVars, menuVars,
                  clipboard, clipVars, clicks, emitted, producerVars,
                  events_rx, facadeVars, pc, tickLogs, thread, threadVars,
                  msgq, win_events, shown, destroyed, joinResult, joinCalls,
                  native, notifLogs, lastWindowEvent>>

\* The setters of ModifyArea and of ModifyMenuItem as the builders call them:
\* the setting is made in place and the other settings are kept.
ModifyArea_icon(modify, icon) == [modify EXCEPT !.icon = Some(icon)]
ModifyArea_tooltip(modify, tooltip) == [modify EXCEPT !.tooltip = Some(tooltip)]
ModifyMenuItem_checked(modify, checked) == [modify EXCEPT !.checked = Some(checked)]
ModifyMenuItem_highlight(modify, highlight) ==
    [modify EXCEPT !.highlight = Some(highlight)]

\* Sender::modify_area: a builder with no setting. A builder is held as the
\* command it is going to send.
Sender_modify_area(p, area) ==
    /\ mbuilder[p] = <<>>
    /\ requested + sentCommands < MaxCommands
    /\ mbuilder' = [mbuilder EXCEPT ![p] =
                      <<InputEvent("ModifyArea", area, ModifyArea(None, None))>>]
    /\ UNCHANGED builderFrame

\* Sender::modify_menu_item
Sender_modify_menu_item(p, area, idx) ==
    /\ mbuilder[p] = <<>>
    /\ requested + sentCommands < MaxCommands
    /\ mbuilder' = [mbuilder EXCEPT ![p] =
                      <<InputEvent("ModifyMenuItem", area,
                                   ItemModify(idx, ModifyMenuItem(None, None)))>>]
    /\ UNCHANGED builderFrame

\* ModifyAreaBuilder::icon
ModifyAreaBuilder_icon(p, icon) ==
    /\ mbuilder[p] # <<>>
    /\ mbuilder[p][1].kind = "ModifyArea"
    /\ mbuilder' = [mbuilder EXCEPT ![p][1].arg = ModifyArea_icon(@, icon)]
    /\ UNCHANGED builderFrame

\* ModifyAreaBuilder::tooltip
ModifyAreaBuilder_tooltip(p, tooltip) ==
    /\ mbuilder[p] # <<>>
    /\ mbuilder[p][1].kind = "ModifyArea"
    /\ mbuilder' = [mbuilder EXCEPT ![p][1].arg = ModifyArea_tooltip(@, tooltip)]
    /\ UNCHANGED builderFrame

\* ModifyMenuItemBuilder::checked
ModifyMenuItemBuilder_checked(p, checked) ==
    /\ mbuilder[p] # <<>>
    /\ mbuilder[p][1].kind = "ModifyMenuItem"
    /\ mbuilder' = [mbuilder EXCEPT ![p][1].arg.modify =
                      ModifyMenuItem_checked(@, checked)]
    /\ UNCHANGED builderFrame

\* ModifyMenuItemBuilder::highlight
ModifyMenuItemBuilder_highlight(p, highlight) ==
    /\ mbuilder[p] # <<>>
    /\ mbuilder[p][1].kind = "ModifyMenuItem"
    /\ mbuilder' = [mbuilder EXCEPT ![p][1].arg.modify =
                      ModifyMenuItem_highlight(@, highlight)]
    /\ UNCHANGED builderFrame

\* Variant: the command is sent with the settings of a new builder.
ModifyBuilder_command_default(b) ==
    InputEvent(b.kind, b.area,
               IF b.kind = "ModifyArea" THEN ModifyArea(None, None)
               ELSE ItemModify(b.arg.idx, ModifyMenuItem(None, None)))

\* The command ModifyAreaBuilder::send and ModifyMenuItemBuilder::send make of
\* the builder b: its area or item and its modify.
ModifyBuilder_command(b) == InputEvent(b.kind, b.area, b.arg)

\* ModifyAreaBuilder::send and ModifyMenuItemBuilder::send: the builder is
\* consumed and its command is sent.
ModifyBuilder_send(p) ==
    /\ mbuilder[p] # <<>>
    /\ sentCommands' = sentCommands + 1
    /\ events_rx' = tx_send(Tagged(ModifyBuilder_command(mbuilder[p][1]), p))
    /\ sent' = IF pc = "dropped" THEN sent ELSE [sent EXCEPT ![p] = @ + 1]
    /\ mbuilder' = [mbuilder EXCEPT ![p] = <<>>]
    /\ UNCHANGED <<done, areas, idBase, copyVars, buildVars, menuVars,
                   clipboard, clipVars, clicks, emitted, notifications, builder,
                   facadeVars, pc, tickLogs, thread, threadVars, msgq,
                   win_events, shown, destroyed, joinResult, joinCalls, native,
                   notifLogs, lastWindowEvent>>

\* A modify builder goes out of scope: the builders have no Drop.
ModifyBuilder_drop(p) ==
    /\ mbuilder[p] # <<>>
    /\ mbuilder' = [mbuilder EXCEPT ![p] = <<>>]
    /\ UNCHANGED builderFrame

\* A NotificationBuilder goes out of scope; the id it took stays taken.
NotificationBuilder_drop(p) ==
    /\ builder[p] # <<>>
    /\ builder' = [builder EXCEPT ![p] = <<>>]
    /\ UNCHANGED <<orderVars, areas, idBase, extVars, clipVars, clicks, emitted,
                   notifications, sentCommands, events_rx, facadeVars, pc,
                   thread, threadVars, msgq, win_events, shown, destroyed,
                   joinResult, joinCalls, native, notifLogs, tickLogs,
                   lastWindowEvent>>

\* A producer makes builders, chains settings, and sends or drops them, while
\* the owner of the EventLoop calls tick(); the window has its popup menu on
\* area 0 or none.
InitBuilders ==
    /\ \E as \in {BuiltAreas, MenulessAreas} : Built(as, Producers, FALSE, 0)
    /\ clipboard = None

NextBuilders ==
    \/ \E p \in Producers : Sender_modify_area(p, 0)
    \/ \E p \in Producers, area \in {0, NumAreas} :
          Sender_modify_menu_item(p, area, 0)
    \/ \E p \in Producers : ModifyAreaBuilder_icon(p, 0)
    \/ \E p \in Producers : ModifyAreaBuilder_tooltip(p, "tip")
    \/ \E p \in Producers : ModifyMenuItemBuilder_checked(p, TRUE)
    \/ \E p \in Producers : ModifyMenuItemBuilder_highlight(p, TRUE)
    \/ \E p \in Producers : ModifyBuilder_send(p)
    \/ \E p \in Producers : ModifyBuilder_drop(p)
    \/ \E p \in Producers : Sender_notification(p, 0)
    \/ \E p \in Producers : NotificationBuilder_send(p)
    \/ \E p \in Producers : NotificationBuilder_drop(p)
    \/ tick_enter
    \/ tick_ModifyArea
    \/ tick_ModifyMenuItem
    \/ tick_Notification

SpecBuilders == InitBuilders /\ [][NextBuilders]_vars

\* ------------------------------------------------------ remote byte copies
RECURSIVE from_ne_bytes(_)
\* usize::to_ne_bytes and the unaligned read of a usize, least significant
\* byte first; a usize has UsizeBytes bytes.
to_ne_bytes(x) ==
    [i \in 1..UsizeBytes |-> IF i = 1 THEN x % 256 ELSE (x \div (256 ^ (i - 1))) % 256]
from_ne_bytes(bs) ==
    IF bs = <<>> THEN 0 ELSE Head(bs) + 256 * from_ne_bytes(Tail(bs))
read_unaligned(mem, offset) ==
    from_ne_bytes(SubSeq(mem, offset + 1, offset + UsizeBytes))

\* The COPYDATASTRUCT a sender passes with WM_COPYDATA.
COPYDATASTRUCT(dwData, lpData) ==
    [dwData |-> dwData, cbData |-> Len(lpData), lpData |-> lpData]

\* The largest usize, and the messages the senders use: a payload of every
\* length up to MaxPayload, tagged with 42 or with its length, and under the
\* largest tag a payload that reads like the tag 42.
USIZE_MAX == 256 ^ UsizeBytes - 1
CopyInputs ==
    {COPYDATASTRUCT(IF n = MaxPayload THEN 42 ELSE n, [i \in 1..n |-> 101 + i]) :
        n \in 0..MaxPayload}
      \cup {COPYDATASTRUCT(USIZE_MAX, to_ne_bytes(42))}

\* Variant: the tag is put before the payload.
window_proc_copydata_tag_first(data) ==
    [mem |-> to_ne_bytes(data.dwData) \o data.lpData,
     cap |-> data.cbData + UsizeBytes]

\* window_proc, WM_COPYDATA: a Vec of capacity len + size_of::<usize>() that
\* holds the payload and then the bytes of the tag. The message that is
\* posted carries the pointer to it, modelled by the allocation it addresses.
window_proc_copydata(data) ==
    [mem |-> SubSeq(data.lpData, 1, data.cbData) \o to_ne_bytes(data.dwData),
     cap |-> data.cbData + UsizeBytes]

\* Vec::from_raw_parts(ptr, len, cap): the first len bytes of the allocation.
Vec_from_raw_parts(alloc, len, cap) == SubSeq(alloc.mem, 1, len)

\* The CopyData event of the window thread.
CopyDataEvent(ty, bytes) ==
    [kind |-> "CopyData", area |-> 0, shownId |-> 0, seq |-> 0,
     ty |-> ty, bytes |-> bytes]

\* A process sends WM_COPYDATA to the window: window_proc runs on the window
\* thread and posts BYTES_ID with the length of the payload and the pointer.
WM_COPYDATA(data) ==
    /\ threadState = "running"
    /\ hwndValid
    /\ Len(copySent) < MaxCopies
    /\ copySent' = Append(copySent, [ty |-> data.dwData, data |-> data.lpData])
    /\ msgq' = Append(msgq, Msg("BYTES_ID", data.cbData, window_proc_copydata(data), 0))
    /\ UNCHANGED <<producerVars, events_rx, facadeVars, pc, tickLogs, thread,
                   threadVars, win_events, shown, destroyed, joinResult,
                   joinCalls, native, notifLogs, lastWindowEvent, orderVars,
                   areas, idBase, copied, buildVars, menuVars, mbuilder, clipboard,
                   emitted, clicks, clipVars>>

\* The iteration of the message loop that takes BYTES_ID: the Vec is rebuilt
\* with the length of the payload, the tag is read behind it and the CopyData
\* event is sent.
WindowThread_copydata ==
    /\ threadState = "running"
    /\ msgq # <<>>
    /\ Head(msgq).message = "BYTES_ID"
    /\ msgq' = Tail(msgq)
    /\ LET len == Head(msgq).wParam
           alloc == Head(msgq).lParam
           bytes == Vec_from_raw_parts(alloc, len, len + UsizeBytes)
           ty == read_unaligned(alloc.mem, Len(bytes))
       IN  win_events' = events_tx_send(CopyDataEvent(ty, bytes))
    /\ emitted' = emitted + 1
    /\ UNCHANGED <<orderVars, areas, idBase, extVars, clipVars, clicks,
                   producerVars, events_rx, facadeVars, pc, tickLogs, thread,
                   threadVars, shown, destroyed, joinResult, joinCalls,
                   native, notifLogs, lastWindowEvent>>

\* EventLoop::tick, WindowEvent::CopyData
tick_CopyData ==
    /\ pc = "select"
    /\ WindowLoop_tick_ready
    /\ WindowLoop_tick.kind = "CopyData"
    /\ win_events' = WindowLoop_tick_rest
    /\ lastWindowEvent' = WindowLoop_tick
    /\ copied' = Append(copied, [ty |-> WindowLoop_tick.ty,
                                  data |-> WindowLoop_tick.bytes])
    /\ TickReturn(Ok("CopyData", 0, 0, 0))
    /\ UNCHANGED <<producerVars, events_rx, facadeVars, thread, threadVars, msgq,
                   shown, destroyed, joinResult, joinCalls, native, notifLogs,
                   orderVars, areas, idBase, copySent, buildVars, menuVars,
                   mbuilder, clipboard, emitted, clicks, clipVars>>

\* The window that receives byte copies: processes send WM_COPYDATA, the user
\* clicks the tray icon, the window may be destroyed, the window thread runs
\* its loop and the owner of the EventLoop calls tick().
NextCopy ==
    \/ \E data \in CopyInputs : WM_COPYDATA(data)
    \/ WindowThread_copydata
    \/ tick_CopyData
    \/ IconMouseUp(0, "WM_LBUTTONUP")
    \/ WindowThread_dispatch
    \/ WindowThread_exit
    \/ ExternalDestroy
    \/ tick_enter
    \/ tick_WindowEvent
    \/ tick_WindowShutdown
    \/ join_wait

SpecCopy == Init /\ [][NextCopy]_vars

\* ------------------------------------------------------------- CreateWindow
AreaId_new(id) == <<id>>
ItemId_new(area_id, id) == <<area_id, id>>
IconId_new(id) == <<id>>

\* The button sets PopupMenu::open_menu is called with.
OpenMenuInputs == {{"Left"}}

\* The area added last: the one the application holds a reference to.
LastArea == Len(cw.areas)
\* Area::popup_menu of the area added last: its menu, made if it has none.
Area_popup_menu ==
    IF cw.areas[LastArea] = None THEN PopupMenu(<<>>, {"Right"})
    ELSE cw.areas[LastArea][1]

\* CreateWindow::new_area; the application adds its areas when it has
\* inserted its NumIcons icons.
CreateWindow_new_area ==
    /\ bpc = "config"
    /\ cw.icons = NumIcons
    /\ Len(cw.areas) < MaxAreas
    /\ cw' = [cw EXCEPT !.areas = Append(@, None)]
    /\ given' = given \cup {[kind |-> "AreaId", id |-> AreaId_new(Len(cw.areas)),
                              nth |-> <<Len(cw.areas) + 1>>]}
    /\ UNCHANGED <<unbuiltVars, bpc, buildResult, menus, areas, thread,
                   threadVars, joinCalls>>

\* PopupMenu::push_entry and PopupMenu::push_separator on the menu of the
\* area added last.
PopupMenu_push ==
    /\ bpc = "config"
    /\ LastArea >= 1
    /\ Len(Area_popup_menu.menu) < MenuLen
    /\ cw' = [cw EXCEPT !.areas[LastArea] =
                 Some([Area_popup_menu EXCEPT !.menu = Append(@, "Item")])]
    /\ given' = given \cup
          {[kind |-> "ItemId",
            id |-> ItemId_new(LastArea - 1, Len(Area_popup_menu.menu)),
            nth |-> <<LastArea, Len(Area_popup_menu.menu) + 1>>]}
    /\ UNCHANGED <<unbuiltVars, bpc, buildResult, menus, areas, thread,
                   threadVars, joinCalls>>

\* PopupMenu::open_menu on the menu of the area added last.
PopupMenu_open_menu(buttons) ==
    /\ bpc = "config"
    /\ LastArea >= 1
    /\ Area_popup_menu.open_menu # buttons
    /\ cw' = [cw EXCEPT !.areas[LastArea] =
                 Some([Area_popup_menu EXCEPT !.open_menu = buttons])]
    /\ UNCHANGED <<unbuiltVars, given, bpc, buildResult, menus, areas, thread,
                   threadVars, joinCalls>>

\* Icons::insert_buffer
Icons_insert_buffer ==
    /\ bpc = "config"
    /\ cw.icons < NumIcons
    /\ cw' = [cw EXCEPT !.icons = @ + 1]
    /\ given' = given \cup {[kind |-> "IconId", id |-> IconId_new(cw.icons),
                              nth |-> <<cw.icons + 1>>]}
    /\ UNCHANGED <<unbuiltVars, bpc, buildResult, menus, areas, thread,
                   threadVars, joinCalls>>

\* CreateWindow::build up to WindowLoop::new: the icons and the popup menus
\* are made, which may fail, and the window thread is spawned.
CreateWindow_build ==
    /\ bpc = "config"
    /\ \E outcome \in {"Ok", "SetupIcons"} :
          IF outcome = "Ok"
          THEN /\ menus' = BuildMenus(cw.areas)
               /\ threadState' = "init"
               /\ bpc' = "awaiting"
               /\ UNCHANGED buildResult
          ELSE /\ bpc' = "failed"
               /\ buildResult' = outcome
               /\ UNCHANGED <<menus, threadState>>
    /\ UNCHANGED <<unbuiltVars, cw, given, areas, thread, threadResult,
                   hwndValid, events_tx_open, joinCalls>>

\* The window thread before its message loop: init_window and the clipboard
\* listener. When one of them fails the thread returns the error and its
\* window, if it was made, is gone with it; otherwise it sends the window
\* through return_tx.
WindowThread_init ==
    /\ threadState = "init"
    /\ \E outcome \in {"Ok", "Init"} \cup
                       (IF clipboard_manager THEN {"AddClipboardFormatListener"}
                        ELSE {}) :
          IF outcome = "Ok"
          THEN /\ threadState' = "running"
               /\ hwndValid' = TRUE
               /\ UNCHANGED <<threadResult, events_tx_open>>
          ELSE /\ threadState' = "exited"
               /\ threadResult' = outcome
               /\ events_tx_open' = FALSE
               /\ UNCHANGED hwndValid
    /\ UNCHANGED <<unbuiltVars, buildVars, menus, areas, thread, joinCalls>>

\* WindowLoop::new, `return_rx.await`: it gets the window, or the channel is
\* closed by the thread that returned, and then the thread is joined and its
\* error returned.
WindowLoop_new_return ==
    /\ bpc = "awaiting"
    /\ threadState \in {"running", "exited"}
    /\ IF threadState = "running"
       THEN /\ thread' = <<"handle">>
            /\ bpc' = "adding"
            /\ UNCHANGED <<buildResult, joinCalls>>
       ELSE /\ joinCalls' = joinCalls \cup {"build"}
            /\ bpc' = "failed"
            /\ buildResult' = "WindowSetup"
            /\ UNCHANGED thread
    /\ UNCHANGED <<unbuiltVars, cw, given, menus, areas, threadVars>>

\* CreateWindow::build, the tray icons: add_notification for every area and
\* then modify_notification for every area. Either may fail, and then `?`
\* returns the error and the WindowLoop is dropped with its thread handle.
CreateWindow_build_areas(step) ==
    /\ bpc = step
    /\ \E ok \in IF cw.areas = <<>> THEN {TRUE} ELSE {TRUE, FALSE} :
          IF ok
          THEN /\ bpc' = IF step = "adding" THEN "modifying" ELSE "done"
               /\ buildResult' = IF step = "adding" THEN buildResult ELSE "Ok"
               /\ areas' = [a \in 0..(Len(cw.areas) - 1) |-> TrayIcon(None, None)]
               /\ UNCHANGED thread
          ELSE /\ bpc' = "failed"
               /\ buildResult' = IF step = "adding" THEN "AddNotification"
                                  ELSE "ModifyNotification"
               /\ thread' = <<>>
               /\ UNCHANGED areas
    /\ UNCHANGED <<unbuiltVars, cw, given, menus, threadVars, joinCalls>>

\* ------------------------------------------------------------ menu commands
\* The WM_MENUCOMMAND message: wParam is the position of the item, lParam the
\* handle of the menu. The field nth is not program state: it names the item
\* the user chose, by the area and the push that made it.
MenuMsg(position, hmenu, nth) ==
    [message |-> "WM_MENUCOMMAND", wParam |-> position, lParam |-> hmenu,
     shownId |-> 0, nth |-> nth]

MenuItemClickedEvent(area, idx, nth) ==
    [kind |-> "MenuItemClicked", area |-> area, shownId |-> 0, seq |-> 0,
     idx |-> idx, nth |-> nth]

\* The handles of the popup menus of the window, and a handle that is none of
\* them.
ForeignMenu == Len(menus) + 1

\* The user chooses the j-th item pushed to the popup menu of the i-th area:
\* the platform sends WM_MENUCOMMAND with the position the item has in the
\* native menu, and window_proc posts it.
MenuItemChosen(i, j) ==
    /\ bpc = "done"
    /\ hwndValid
    /\ clicks < MaxClicks
    /\ i \in DOMAIN menus
    /\ menus[i] # None
    /\ j \in 1..Len(menus[i][1].items)
    /\ LET items == menus[i][1].items
           position == (CHOOSE k \in 1..Len(items) : items[k] = j - 1) - 1
       IN  msgq' = Append(msgq, MenuMsg(position, menus[i][1].hmenu, <<i, j>>))
    /\ clicks' = clicks + 1
    /\ UNCHANGED <<producerVars, events_rx, facadeVars, pc, tickLogs, thread,
                   threadVars, win_events, shown, destroyed, joinResult,
                   joinCalls, native, notifLogs, lastWindowEvent, orderVars,
                   areas, idBase, extVars, emitted, clipVars>>

\* A WM_MENUCOMMAND message for a menu that is none of the window's.
ForeignMenuCommand(position) ==
    /\ bpc = "done"
    /\ hwndValid
    /\ clicks < MaxClicks
    /\ msgq' = Append(msgq, MenuMsg(position, ForeignMenu, <<0, 0>>))
    /\ clicks' = clicks + 1
    /\ UNCHANGED <<producerVars, events_rx, facadeVars, pc, tickLogs, thread,
                   threadVars, win_events, shown, destroyed, joinResult,
                   joinCalls, native, notifLogs, lastWindowEvent, orderVars,
                   areas, idBase, extVars, emitted, clipVars>>

\* Variant: the handle is taken for the index of the area.
menus_position_by_handle(hmenu) == Some(hmenu)

\* `self.menus.iter().position(..)`: the index of the first area whose popup
\* menu has the handle.
menus_position(hmenu) ==
    LET found == {i \in DOMAIN menus : menus[i] # None /\ menus[i][1].hmenu = hmenu}
    IN  IF found = {} THEN None
        ELSE Some((CHOOSE i \in found : \A k \in found : i <= k) - 1)

\* MenuManager::dispatch, WM_MENUCOMMAND: the message is consumed, and the
\* MenuItemClicked event is sent when the handle is that of an area's menu.
WindowThread_menucommand ==
    /\ threadState = "running"
    /\ msgq # <<>>
    /\ Head(msgq).message = "WM_MENUCOMMAND"
    /\ msgq' = Tail(msgq)
    /\ LET m == Head(msgq)
           area_id == menus_position(m.lParam)
       IN  IF area_id = None
           THEN UNCHANGED <<win_events, emitted>>
           ELSE /\ win_events' =
                     events_tx_send(MenuItemClickedEvent(area_id[1], m.wParam, m.nth))
                /\ emitted' = emitted + 1
    /\ UNCHANGED <<orderVars, areas, idBase, extVars, clipVars, clicks,
                   producerVars, events_rx, facadeVars, pc, tickLogs, thread,
                   threadVars, shown, destroyed, joinResult, joinCalls,
                   native, notifLogs, lastWindowEvent>>

\* EventLoop::tick, WindowEvent::MenuItemClicked: the event is returned with
\* ItemId::new(area_id.id(), idx).
tick_MenuItemClicked ==
    /\ pc = "select"
    /\ WindowLoop_tick_ready
    /\ WindowLoop_tick.kind = "MenuItemClicked"
    /\ win_events' = WindowLoop_tick_rest
    /\ lastWindowEvent' = WindowLoop_tick
    /\ TickReturn(Ok("MenuItemClicked", WindowLoop_tick.area, WindowLoop_tick.idx, 0))
    /\ UNCHANGED <<producerVars, events_rx, facadeVars, thread, threadVars, msgq,
                   shown, destroyed, joinResult, joinCalls, native, notifLogs,
                   orderVars, areas, idBase, extVars, emitted, clicks, clipVars>>

\* The program from the CreateWindow builder on: the application adds areas,
\* menu items and icons and builds the window; then the user clicks tray icons
\* and chooses menu items, and the owner of the EventLoop calls tick().
InitBuild ==
    /\ Unbuilt(Producers, TRUE, 0)
    /\ clipboard = None
    /\ cw = [areas |-> <<>>, icons |-> 0]
    /\ given = {}
    /\ bpc = "config"
    /\ buildResult = "None"
    /\ menus = <<>>
    /\ areas = <<>>
    /\ thread = <<>>
    /\ threadState = "unspawned"
    /\ hwndValid = FALSE
    /\ events_tx_open = TRUE

NextBuild ==
    \/ CreateWindow_new_area
    \/ PopupMenu_push
    \/ \E buttons \in OpenMenuInputs : PopupMenu_open_menu(buttons)
    \/ Icons_insert_buffer
    \/ CreateWindow_build
    \/ WindowThread_init
    \/ WindowLoop_new_return
    \/ \E step \in {"adding", "modifying"} : CreateWindow_build_areas(step)
    \/ \E i \in DOMAIN menus, j \in 1..MenuLen : MenuItemChosen(i, j)
    \/ ForeignMenuCommand(0)
    \/ \E i \in DOMAIN menus, lParam \in {"WM_LBUTTONUP", "WM_RBUTTONUP"} :
          bpc = "done" /\ IconMouseUp(i - 1, lParam)
    \/ WindowThread_dispatch
    \/ WindowThread_menucommand
    \/ bpc = "done" /\ tick_enter
    \/ tick_WindowEvent
    \/ tick_MenuItemClicked

SpecBuild == InitBuild /\ [][NextBuild]_vars

\* ------------------------------------------------------------------ claims
Range(q) == {q[i] : i \in 1..Len(q)}
IsPrefix(q, r) == Len(q) <= Len(r) /\ SubSeq(r, 1, Len(q)) = q
PendingIds == [i \in 1..Len(pending) |-> pending[i].id]

C2_FifoOneAtATime ==
    /\ IsPrefix(forwarded, accepted)
    /\ IsPrefix(taken, forwarded)
    /\ Len(forwarded) <= Len(taken) + 1

C2_Witness ==
    /\ Len(accepted) = 3
    /\ Len(forwarded) = 2
    /\ Len(taken) = 1
    /\ Len(pending) = 1

\* C3: a NotificationClicked or NotificationDismissed event returned by tick()
\* carries the id of the notification whose balloon was displayed when the
\* signal was raised.
C3_EventCarriesShownId ==
    (result.tag = "Ok" /\ result.kind \in {"NotificationClicked", "NotificationDismissed"})
        => result.id = result.shownId

C3_Witness ==
    /\ result.tag = "Ok"
    /\ result.kind = "NotificationDismissed"
    /\ result.id = 1
    /\ visible # <<>>

\* C4: at most one notification has been forwarded without having been taken
\* by a signal, at most one balloon is displayed, and the accepted
\* notifications not yet forwarded are exactly the pending queue, in order.
C4_AtMostOneInFlight ==
    /\ Cardinality(Range(forwarded) \ Range(taken)) <= 1
    /\ Cardinality(shown) <= 1
    /\ accepted = forwarded \o PendingIds

C4_Witness == visible # <<>> /\ Len(pending) = 2 /\ Cardinality(shown) = 1

\* C5: whenever the visible slot is empty the pending queue is empty.
C5_NoPendingWhileEmpty == visible = <<>> => pending = <<>>

C5_Witness == visible = <<>> /\ Len(taken) = 2 /\ Len(accepted) = 2

\* The step of tick() that processes the Notification command at the head of
\* the command channel.
NotificationStep == accepted' # accepted

\* C6 as stated: a Notification command for an area of which no notification
\* is visible is forwarded at once, whatever the other areas' state.
C6_VisibilityPerArea ==
    [][(NotificationStep
          /\ ~(visible # <<>> /\ visible[1].area = Head(events_rx).area))
       => forwarded' = Append(forwarded, Head(events_rx).arg)]_vars

\* C6, amended: there is one visible slot for all areas. A Notification command
\* is marked visible and forwarded at once when no notification of any area is
\* visible, and is put at the back of the pending queue otherwise.
C6_VisibilityShared ==
    [][NotificationStep =>
          LET n == [area |-> Head(events_rx).area, id |-> Head(events_rx).arg] IN
          IF visible = <<>>
          THEN /\ visible' = <<n>>
               /\ forwarded' = Append(forwarded, n.id)
               /\ pending' = pending
          ELSE /\ visible' = visible
               /\ forwarded' = forwarded
               /\ pending' = Append(pending, n)]_vars

C6_Witness ==
    /\ visible # <<>>
    /\ pending # <<>>
    /\ pending[1].area # visible[1].area
    /\ pending[1].area \in ConfiguredAreas

\* A call of join() by tick()'s Shutdown command arm returns in this step.
ShutdownCommandDone ==
    /\ pc' = "idle"
    /\ \/ pc = "join_cmd"
       \/ /\ pc = "select"
          /\ events_rx # <<>>
          /\ Head(events_rx).kind = "Shutdown"
          /\ events_rx' = Tail(events_rx)

\* The run "build, then shutdown() at once" has been played to the return of
\* tick(): the one command sent made tick() call join(), no notification was
\* requested and the window was not destroyed from outside.
ScenarioA ==
    /\ notifications = 0
    /\ sentCommands = 1
    /\ ~destroyed
    /\ pc = "idle"
    /\ joinCalls # {}

C8_JoinIdempotent == \A c \in joinCalls : c.wasJoined => c.result = "Ok"

\* join() has completed: a call of join() took the thread handle and returned.
JoinCompleted == \E c \in joinCalls : ~c.wasJoined /\ c.result # "PostMessageDestroy"

\* C9: once join() has completed, is_closed() is true and a tick() call returns
\* at once with the window-closed error, never reaching the select.
C9_ClosedFailFast ==
    /\ [](JoinCompleted => is_closed)
    /\ [][(JoinCompleted /\ pc = "idle") =>
            /\ pc' \in {"idle", "dropped"}
            /\ result' # result => result' = Err("WindowClosed")
            /\ events_rx' # events_rx => Len(events_rx') > Len(events_rx)
            /\ win_events' = win_events]_vars

C9_Witness == JoinCompleted /\ result = Err("WindowClosed") /\ events_rx # <<>>

\* C10: when the event channel is closed and drained, WindowLoop::tick is ready
\* and yields Shutdown, and the tick() awaiting it can take its Shutdown arm.
C10_ClosedChannelYieldsShutdown ==
    (win_events = <<>> /\ ~events_tx_open) =>
        /\ WindowLoop_tick_ready
        /\ WindowLoop_tick.kind = "Shutdown"
        /\ pc = "select" => ENABLED tick_WindowShutdown

C10_Witness ==
    /\ lastWindowEvent.kind = "Shutdown"
    /\ win_events = <<>>
    /\ ~events_tx_open
    /\ pc = "idle"
    /\ result.kind \in {"Shutdown", "PostMessageDestroy"}

\* The errors of join(): the window thread panicked or returned an error, or
\* the destroy message could not be posted.
FatalErrors == {"ThreadError", "PostMessageDestroy"}

\* C11 as stated: once tick() has returned a fatal error of join(), is_closed()
\* is true, so that every further tick() returns the window-closed error.
C11_FatalErrorClosesLoop ==
    (pc = "idle" /\ result.tag = "Err" /\ result.kind \in FatalErrors) => is_closed

\* The errors of the native calls a mutation command makes.
MutationErrors == {"ModifyNotification", "ModifyMenuItem", "SendNotification"}

\* tick() returns from the arm of a mutation command: the native call failed.
MutationFails ==
    /\ pc = "select"
    /\ events_rx # <<>>
    /\ recv.kind \in {"ModifyArea", "ModifyMenuItem", "Notification"}
    /\ events_rx' = Tail(events_rx)
    /\ pc' = "idle"

\* C12 as stated: the failure of a mutation command is returned by tick() as an
\* Event::Error and the loop stays open.
C12_MutationFailureIsEvent ==
    [][MutationFails =>
          /\ result'.tag = "Ok"
          /\ result'.kind = "Error"
          /\ ~is_closed']_vars

\* C12, amended: the failure of a mutation command is returned by tick() as
\* Err(kind), not as an event; the call leaves the thread handle, the window
\* thread and both channels as they are, so is_closed() stays false and the
\* next tick() enters its select again.
C12_MutationFailureIsErr ==
    /\ [][MutationFails =>
            /\ result'.tag = "Err"
            /\ result'.kind \in MutationErrors
            /\ thread' = thread
            /\ ~is_closed'
            /\ threadState' = threadState
            /\ msgq' = msgq
            /\ win_events' = win_events]_vars
    /\ []((pc = "idle" /\ result.tag = "Err" /\ result.kind \in MutationErrors)
            => (~is_closed /\ ENABLED tick_enter))
    /\ [][(pc = "idle" /\ result.tag = "Err" /\ result.kind \in MutationErrors
            /\ pc' # pc) => pc' \in {"select", "join_drop", "dropped"}]_vars

\* The first Notification command failed in send_notification, tick() returned
\* the error, and a later tick() took the second Notification command.
C12_Witness ==
    /\ result = Err("SendNotification")
    /\ Len(accepted) = 2
    /\ Len(forwarded) = 1
    /\ Len(pending) = 1
    /\ joinCalls = {}
    /\ threadState = "running"
    /\ ~is_closed

\* The message queue holds a clipboard-update signal not yet dispatched.
UpdateQueued == \E i \in 1..Len(msgq) : msgq[i].message = "WM_CLIPBOARDUPDATE"

\* C13: when all clipboard-update signals are raised before the debounce timer
\* fires, the timer fires at most once, so there is at most one poll cycle, one
\* Clipboard event and one Error event; and once the signals are dispatched
\* and the timer is no longer set, it has fired exactly once.
C13_DebounceCoalesces ==
    ~late =>
       /\ fires <= 1
       /\ clipEvents <= 1
       /\ clipErrors <= 1
       /\ (/\ updates > 0
           /\ threadState = "running"
           /\ ~UpdateQueued
           /\ "CLIPBOARD_DEBOUNCE_TIMER" \notin timers) => fires = 1

C13_Witness ==
    /\ ~late
    /\ updates = 2
    /\ fires = 1
    /\ clipEvents = 1
    /\ threadState = "running"

\* The step in which the window thread sends an Error event.
ErrorSent == clipErrors' # clipErrors

\* C14: the retry timer polls at most RETRY_MAX_ATTEMPTS times after the poll
\* of the debounce timer failed; while it is set, attempts is one more than
\* the polls it has made; the Error event is sent by the poll number
\* RETRY_MAX_ATTEMPTS, once, and that step kills the retry timer and sets
\* attempts to 0.
C14_RetriesBounded ==
    /\ [](retryPolls <= RETRY_MAX_ATTEMPTS /\ attempts <= RETRY_MAX_ATTEMPTS)
    /\ [](IF "CLIPBOARD_RETRY_TIMER" \in timers
          THEN attempts = retryPolls + 1
          ELSE attempts = 0)
    /\ [][ErrorSent =>
            /\ clipErrors' = clipErrors + 1
            /\ retryPolls' = RETRY_MAX_ATTEMPTS
            /\ "CLIPBOARD_RETRY_TIMER" \notin timers'
            /\ attempts' = 0
            /\ Len(win_events') = Len(win_events) + 1
            /\ win_events'[Len(win_events')].kind = "Error"]_vars

C14_Witness ==
    /\ clipErrors = 1
    /\ retryPolls = RETRY_MAX_ATTEMPTS
    /\ attempts = 0
    /\ "CLIPBOARD_RETRY_TIMER" \notin timers
    /\ fires = 1

\* C15: the window thread leaves its message loop only for WM_DESTROY, never
\* for a failed poll; after an Error event it is still running unless the
\* window was destroyed, a clipboard-update signal is dispatched again and a debounce
\* timer that is set fires again.
C15_PollFailureNotFatal ==
    /\ [][threadState' # threadState =>
            (msgq # <<>> /\ Head(msgq).message = "WM_DESTROY")]_vars
    /\ []((clipErrors > 0 /\ ~destroyed) => threadState = "running")
    /\ []((threadState = "running" /\ msgq # <<>>
            /\ Head(msgq).message = "WM_CLIPBOARDUPDATE")
           => ENABLED ClipboardManager_dispatch_update)
    /\ [](TimerMessage("CLIPBOARD_DEBOUNCE_TIMER")
           => ENABLED ClipboardManager_dispatch_debounce)

C15_Witness ==
    /\ clipErrors = 1
    /\ updates = 2
    /\ late
    /\ lastWindowEvent.kind = "Error"
    /\ win_events # <<>>
    /\ Head(win_events).kind = "Clipboard"
    /\ threadState = "running"

\* C16: the events wait in the channel in the order the window thread sent
\* them, all of them sent after the last one tick() took, and the events
\* tick() takes and returns follow that order.
C16_WindowEventsInOrder ==
    /\ [](\A i \in 1..Len(win_events) :
            win_events[i].seq >
               (IF i = 1 THEN lastWindowEvent.seq ELSE win_events[i - 1].seq))
    /\ [][lastWindowEvent' # lastWindowEvent =>
            /\ win_events # <<>> => lastWindowEvent'.seq > lastWindowEvent.seq
            /\ win_events = <<>> => lastWindowEvent'.kind = "Shutdown"
            /\ result'.kind \in {lastWindowEvent'.kind, "PostMessageDestroy"}
                  \/ pc' # "idle"]_vars

C16_Witness ==
    /\ lastWindowEvent.seq = 2
    /\ lastWindowEvent.kind = "IconClicked"
    /\ result = Ok("IconClicked", lastWindowEvent.area, 0, 0)
    /\ win_events # <<>>
    /\ Head(win_events).kind = "Clipboard"

\* The commands of producer p that are in the channel, in channel order.
QueuedFrom(p) == SelectSeq(events_rx, LAMBDA e : e.from = p)

\* C17: commands sent through clones of one Sender go into one channel, and
\* tick() processes the commands of each producer in the order that producer
\* sent them: the commands of a producer that wait in the channel are its
\* sends done[p]+1 .. sent[p] in that order, and every command tick() takes is
\* the next send of its producer.
C17_PerProducerOrder ==
    /\ [](\A p \in DOMAIN sent :
            /\ Len(QueuedFrom(p)) = sent[p] - done[p]
            /\ \A i \in 1..Len(QueuedFrom(p)) : QueuedFrom(p)[i].n = done[p] + i)
    /\ [][done' # done =>
            /\ events_rx # <<>>
            /\ events_rx' = Tail(events_rx)
            /\ recv.n = done[recv.from] + 1
            /\ done' = [done EXCEPT ![recv.from] = recv.n]]_vars

\* Two clones have sent interleaved commands; tick() has processed the first
\* command of p1 and the command of p2, in the middle of p1's sends, waits
\* before p1's second command.
C17_Witness ==
    /\ DOMAIN sent = Clones
    /\ sent["p1"] = 2 /\ sent["p2"] = 1
    /\ done["p1"] = 1 /\ done["p2"] = 0
    /\ Len(events_rx) = 2
    /\ events_rx[1].from = "p2"
    /\ events_rx[2].from = "p1"

\* The notification ids that are held somewhere during the run: in a builder,
\* in a Notification command of the channel, or accepted by tick().
HeldBuilders == {p \in DOMAIN builder : builder[p] # <<>>}
HeldCommands == {i \in 1..Len(events_rx) : events_rx[i].kind = "Notification"}
HeldIds ==
    {builder[p][1].id : p \in HeldBuilders}
        \cup {events_rx[i].arg : i \in HeldCommands}
        \cup {accepted[i] : i \in 1..Len(accepted)}

\* C18: an id obtained from the Sender or a clone of it differs from every
\* other id obtained from that Sender: the ids held during the run are pairwise
\* different, and none of them is an id the counter handed out before it
\* reached idBase.
C18_IdsUniqueForever ==
    /\ Cardinality(HeldIds)
          = Cardinality(HeldBuilders) + Cardinality(HeldCommands) + Len(accepted)
    /\ \A id \in HeldIds : ~ULess(id, idBase)

\* tick() takes a ModifyMenuItem command whose index is at or beyond the end
\* of the popup menu.
TakesMenuItemBeyond ==
    /\ pc = "select"
    /\ events_rx # <<>>
    /\ recv.kind = "ModifyMenuItem"
    /\ recv.arg.idx >= MenuLen
    /\ events_rx' = Tail(events_rx)

\* C19: a ModifyMenuItem command whose index is beyond the end of the menu is
\* dropped without a report: tick() goes on to its next event and returns
\* nothing for the command.
C19_BeyondMenuDropped ==
    [][TakesMenuItemBeyond => pc' = "select" /\ result' = result]_vars

\* tick() takes a ModifyArea command whose IconId is not in the icon table.
TakesStaleIcon ==
    /\ pc = "select"
    /\ events_rx # <<>>
    /\ recv.kind = "ModifyArea"
    /\ recv.arg.icon # None
    /\ recv.arg.icon[1] >= NumIcons
    /\ events_rx' = Tail(events_rx)

\* C20: a ModifyArea command whose IconId is not in the icon table is no
\* error: the command is carried out as one without an icon. The icon of the
\* area stays as it was, the native modify call is made, and when that call
\* succeeds tick() goes on and the tooltip of the command is applied; the only
\* error the command can end in is the failure of the native call itself.
C20_StaleIconSkipped ==
    [][TakesStaleIcon =>
         LET a == recv.area
             m == recv.arg
         IN  /\ [op |-> "modify_notification", thread |-> "tick"] \in native'
             /\ a \in DOMAIN areas => areas'[a].icon = areas[a].icon
             /\ \/ /\ pc' = "select"
                   /\ result' = result
                   /\ a \in DOMAIN areas =>
                         areas'[a].tooltip
                           = IF m.tooltip # None THEN m.tooltip ELSE areas[a].tooltip
                \/ /\ pc' = "idle"
                   /\ result' = Err("ModifyNotification")
                   /\ areas' = areas]_vars

\* The tooltip, which only the command with the unknown IconId carries, has
\* been applied beside an icon set by another command, and tick() is still
\* going without having returned an error.
C20_Witness ==
    /\ areas[0] = TrayIcon(Some(0), Some("tip"))
    /\ pc = "select"
    /\ ~errored
    /\ done = sent

\* tick() takes a ModifyArea or Notification command whose area index is not
\* the index of a configured area.
TakesUnknownArea ==
    /\ pc = "select"
    /\ events_rx # <<>>
    /\ recv.kind \in {"ModifyArea", "Notification"}
    /\ recv.area \notin ConfiguredAreas
    /\ events_rx' = Tail(events_rx)

\* C21: a ModifyArea or Notification command for an area index that resolves
\* to no configured area is ignored: tick() returns no error and goes on, and
\* the visible slot and the pending queue stay as they were.
C21_UnknownAreaIgnored ==
    [][TakesUnknownArea =>
         /\ pc' = "select"
         /\ result' = result
         /\ visible' = visible
         /\ pending' = pending]_vars

\* The byte-copy messages whose BYTES_ID message waits in the message queue,
\* and the CopyData events that wait in the event channel.
CopiesPosted == SelectSeq(msgq, LAMBDA m : m.message = "BYTES_ID")
CopiesSent == SelectSeq(win_events, LAMBDA e : e.kind = "CopyData")

\* C22: every byte-copy message sent to the window is delivered as exactly one
\* CopyData event whose tag and bytes are those sent, and the events come in
\* the order the messages were sent: the events tick() has returned and those
\* waiting in the channel are, in this order, the first messages sent, and
\* until the window is destroyed every other message sent waits in the
\* message queue.
C22_CopyDataRoundTrip ==
    /\ Len(copied) + Len(CopiesSent) <= Len(copySent)
    /\ \A i \in 1..Len(copied) : copied[i] = copySent[i]
    /\ \A i \in 1..Len(CopiesSent) :
          /\ CopiesSent[i].ty = copySent[Len(copied) + i].ty
          /\ CopiesSent[i].bytes = copySent[Len(copied) + i].data
    /\ ~destroyed =>
          Len(copied) + Len(CopiesSent) + Len(CopiesPosted) = Len(copySent)

\* Two messages were sent, the first with the payload that reads like a tag;
\* tick() has returned both, after a click on the tray icon in between.
C22_Witness ==
    /\ Len(copied) = 2
    /\ copied[1] = [ty |-> USIZE_MAX, data |-> to_ne_bytes(42)]
    /\ copied[2] = [ty |-> 42, data |-> <<102, 103>>]
    /\ clicks = 1
    /\ emitted = 3
    /\ lastWindowEvent.kind = "CopyData"
    /\ lastWindowEvent.seq = 3

\* The entity an id of the builder resolves to in the built window: the tray
\* icon of the area, the item at the position of the id in the native menu of
\* the area, the icon of the table.
Resolves(g) ==
    IF g.kind = "AreaId" THEN g.id[1] \in DOMAIN areas
    ELSE IF g.kind = "IconId" THEN g.id[1] < cw.icons
    ELSE /\ g.id[1] + 1 \in DOMAIN menus
         /\ menus[g.id[1] + 1] # None
         /\ g.id[2] + 1 \in DOMAIN menus[g.id[1] + 1][1].items
         /\ menus[g.id[1] + 1][1].items[g.id[2] + 1] = g.nth[2] - 1

\* C23: the ids handed out at build time are unique per kind and stable: the
\* i-th area gets AreaId i, the j-th item pushed to its popup menu gets ItemId
\* (i, j) and the k-th icon gets IconId k, counted from 0; no two entities of a
\* kind share an id; an id is never taken back; in the built window every id
\* resolves to the entity it was given for, no step of the running loop
\* changes the tables, and the MenuItemClicked event that tick() returns for a
\* chosen item carries the ItemId that item was given.
C23_IdsUniqueAndStable ==
    /\ [](\A g \in given : g.id = [k \in DOMAIN g.nth |-> g.nth[k] - 1])
    /\ [](\A g \in given, h \in given :
            (g.kind = h.kind /\ (g.id = h.id \/ g.nth = h.nth)) => g = h)
    /\ [](bpc = "done" => \A g \in given : Resolves(g))
    /\ [][given \subseteq given']_vars
    /\ [][bpc = "done" =>
            /\ cw' = cw /\ given' = given /\ menus' = menus
            /\ DOMAIN areas' = DOMAIN areas]_vars
    /\ [](result.tag = "Ok" /\ result.kind = "MenuItemClicked" =>
            [kind |-> "ItemId", id |-> ItemId_new(result.area, result.id),
             nth |-> lastWindowEvent.nth] \in given)

\* The window was built with two areas; the user chose the second item of the
\* menu of the second area and tick() returned MenuItemClicked for ItemId (1, 1).
C23_Witness ==
    /\ bpc = "done"
    /\ Len(cw.areas) = 2
    /\ lastWindowEvent.kind = "MenuItemClicked"
    /\ lastWindowEvent.nth = <<2, 2>>
    /\ result = Ok("MenuItemClicked", 1, 1, 0)

\* C24: when the setup fails after the window thread was spawned, build()
\* returns the error only after the window thread has exited and has been
\* joined: no window thread is left running.
C24_SetupFailureJoinsThread ==
    bpc = "failed" /\ threadState # "unspawned" =>
        threadState = "exited" /\ "build" \in joinCalls

\* The window thread takes a WM_MENUCOMMAND message.
TakesMenuCommand ==
    /\ threadState = "running"
    /\ msgq # <<>>
    /\ Head(msgq).message = "WM_MENUCOMMAND"
    /\ msgq' = Tail(msgq)

\* C29: a menu command whose menu handle is that of the popup menu of area i
\* yields exactly one MenuItemClicked event with AreaId i and the item index
\* of the message, which tick() returns as it is; a menu command whose handle
\* is that of no area's popup menu is consumed and yields no event.
C29_MenuCommandResolvesArea ==
    /\ [][TakesMenuCommand =>
            LET m == Head(msgq)
                owners == {i \in DOMAIN menus :
                              menus[i] # None /\ menus[i][1].hmenu = m.lParam}
            IN  IF owners = {} THEN win_events' = win_events /\ emitted' = emitted
                ELSE /\ Len(win_events') = Len(win_events) + 1
                     /\ SubSeq(win_events', 1, Len(win_events)) = win_events
                     /\ win_events'[Len(win_events')].kind = "MenuItemClicked"
                     /\ win_events'[Len(win_events')].area + 1 \in owners
                     /\ win_events'[Len(win_events')].idx = m.wParam]_vars
    /\ [][(pc = "select" /\ win_events # <<>>
              /\ Head(win_events).kind = "MenuItemClicked"
              /\ win_events' = Tail(win_events)) =>
            result' = Ok("MenuItemClicked", Head(win_events).area,
                         Head(win_events).idx, 0)]_vars
    /\ [](\A i \in DOMAIN menus, k \in DOMAIN menus :
            (menus[i] # None /\ menus[k] # None
               /\ menus[i][1].hmenu = menus[k][1].hmenu) => i = k)

\* Only the second of two areas has a popup menu; the user chose its first
\* item and tick() returned MenuItemClicked for area 1.
C29_Witness ==
    /\ bpc = "done"
    /\ Len(menus) = 2
    /\ menus[1] = None
    /\ result = Ok("MenuItemClicked", 1, 0, 0)
    /\ emitted = 1
    /\ msgq = <<>>

\* The window thread takes a tray-icon message of a mouse button released.
TakesMouseUp ==
    /\ threadState = "running"
    /\ msgq # <<>>
    /\ Head(msgq).message = "ICON_ID"
    /\ Head(msgq).lParam \in {"WM_LBUTTONUP", "WM_RBUTTONUP"}
    /\ msgq' = Tail(msgq)

\* C30: a left or right mouse-up on the tray icon of an area always emits
\* IconClicked for that area, and the popup menu is tracked only if the area
\* has a popup menu and the released button is in its open-menu set; by
\* default, as for a menu made by its first push, that set is the right
\* button.
C30_IconClickedAndTracking ==
    /\ [][TakesMouseUp =>
            LET m == Head(msgq)
                button == IF m.lParam = "WM_LBUTTONUP" THEN "Left" ELSE "Right"
            IN  /\ Len(win_events') = Len(win_events) + 1
                /\ win_events'[Len(win_events')].kind = "IconClicked"
                /\ win_events'[Len(win_events')].area = m.wParam
                /\ tracked' # tracked =>
                      /\ m.wParam + 1 \in DOMAIN menus
                      /\ menus[m.wParam + 1] # None
                      /\ button \in menus[m.wParam + 1][1].open_menu
                      /\ tracked' = Append(tracked,
                            [area |-> m.wParam, button |-> button,
                             hmenu |-> menus[m.wParam + 1][1].hmenu])]_vars
    /\ [][\A i \in DOMAIN cw.areas :
            (cw.areas[i] = None /\ cw'.areas[i] # None
               /\ cw'.areas[i][1].menu # <<>>) =>
               cw'.areas[i][1].open_menu = {"Right"}]_vars

\* The menu of area 0 was configured to open on the left button; the left
\* button was released on its icon, the menu was tracked and tick() returned
\* IconClicked.
C30_Witness ==
    /\ bpc = "done"
    /\ Len(menus) = 1
    /\ menus[1] # None
    /\ menus[1][1].open_menu = {"Left"}
    /\ tracked = <<[area |-> 0, button |-> "Left", hmenu |-> 1]>>
    /\ result = Ok("IconClicked", 0, 0, 0)

\* The format of the enumeration that ranks first in the order DIBV5, TEXT,
\* UNICODETEXT.
Preferred(formats) ==
    LET has(f) == \E i \in DOMAIN formats : formats[i] = f
    IN  CASE has("DIBV5") -> Some("DIBV5")
          [] has("TEXT") -> Some("TEXT")
          [] has("UNICODETEXT") -> Some("UNICODETEXT")
          [] OTHER -> None

\* C25: when the debounce timer fires, the format the manager remembers is the
\* one of the available formats that ranks first in the order DIBV5, TEXT,
\* UNICODETEXT, whatever the order of the enumeration.
C25_PreferenceOrder ==
    [][fires' = fires + 1 /\ supported' # None
          => supported' = Preferred(clipboard[1].formats)]_vars

\* A step of the window thread that polls the clipboard, and the format it
\* polls for: the one just enumerated, or the one remembered.
PollsClipboard == fires' # fires \/ retryPolls' = retryPolls + 1
PolledFormat ==
    IF fires' # fires THEN populate_formats(clipboard[1].formats) ELSE supported

\* The poll got and locked the data of the format it polled for.
DataLocked == PollsClipboard /\ PolledFormat # None /\ supported' = None

\* C26: a read that decodes emits exactly one ClipboardEvent and clears the
\* remembered format; a ClipboardEvent is emitted by nothing else, and a poll
\* that finds no remembered format emits none.
C26_OneEventPerDecode ==
    [][/\ (DataLocked /\ decode(PolledFormat[1], clipboard[1].data))
              => /\ clipEvents' = clipEvents + 1
                 /\ win_events' = events_tx_send(WindowEvent("Clipboard", 0, 0))
       /\ clipEvents' # clipEvents
              => /\ DataLocked
                 /\ decode(PolledFormat[1], clipboard[1].data)
                 /\ supported' = None
       /\ (PollsClipboard /\ PolledFormat = None)
              => clipEvents' = clipEvents /\ supported' = None]_vars

\* A read has emitted its event at a debounce poll, the format is cleared, and
\* the retry timer armed by an earlier failure is still to poll.
C26_Witness ==
    /\ clipEvents = 1
    /\ fires = 2
    /\ attempts = 1
    /\ supported = None
    /\ timers = {"CLIPBOARD_RETRY_TIMER"}
    /\ msgq = <<>>

\* C27: text data that is not validly encoded is discarded when it is read:
\* no event of any kind is sent, no timer is set, the attempts are not raised
\* and the remembered format is cleared.
C27_InvalidTextDiscarded ==
    [][(/\ DataLocked
        /\ PolledFormat[1] \in {"TEXT", "UNICODETEXT"}
        /\ ~decode(PolledFormat[1], clipboard[1].data))
          => /\ win_events' = win_events
             /\ clipEvents' = clipEvents
             /\ clipErrors' = clipErrors
             /\ timers' \subseteq timers
             /\ attempts' \in {attempts, 0}
             /\ supported' = None]_vars

\* The byte 0xFF was read as TEXT at the first debounce poll and discarded.
C27_Witness ==
    /\ clipboard = Some(Clipboard(<<"LOCALE", "TEXT">>, <<255, 0>>))
    /\ fires = 1
    /\ retryPolls = 0
    /\ attempts = 0
    /\ timers = {}
    /\ supported = None
    /\ win_events = <<>>
    /\ emitted = 0

\* The state of the window and of the tray: what the platform holds and what
\* the EventLoop keeps of it.
WindowState == <<areas, shown, native, visible, pending, win_events, msgq>>

\* A builder is dropped: the producer holds it before the step and not after
\* it, and the step is not a send.
DropsModifyBuilder(p) ==
    mbuilder[p] # <<>> /\ mbuilder'[p] = <<>> /\ sentCommands' = sentCommands
DropsNotificationBuilder(p) ==
    builder[p] # <<>> /\ builder'[p] = <<>> /\ sent'[p] = sent[p]

JoinBlocked == pc \in {"join_cmd", "join_win", "join_drop"}

WindowShutdownDone ==
    /\ pc \in {"select", "join_win"}
    /\ pc = "select" => win_events = <<>> /\ ~events_tx_open
    /\ events_rx' = events_rx
    /\ lastWindowEvent'.kind = "Shutdown"
    /\ pc' = "idle"

\* C32: when the window thread has exited and closed its channel, the next
\* tick() returns Event::Shutdown, not an error, and the loop is closed
\* afterwards.
C32_ThreadExitYieldsShutdown ==
    [][WindowShutdownDone => result' = Ok("Shutdown", 0, 0, 0) /\ is_closed']_vars

\* tick() takes a ModifyMenuItem command whose area is no area of the window
\* or has no popup menu.
TakesMenuItemNoMenu ==
    /\ pc = "select"
    /\ events_rx # <<>>
    /\ recv.kind = "ModifyMenuItem"
    /\ \/ recv.area + 1 \notin DOMAIN menus
       \/ menus[recv.area + 1] = None
    /\ events_rx' = Tail(events_rx)

\* C33: a ModifyMenuItem command for an index that is no area, or for an area
\* without a popup menu, is ignored: no native call is made, tick() returns
\* nothing, neither an error nor an event, and waits for the next input.
C33_MenuItemWithoutMenuIgnored ==
    [][TakesMenuItemNoMenu =>
          /\ native' = native
          /\ pc' = "select"
          /\ result' = result
          /\ errored' = errored
          /\ areas' = areas
          /\ win_events' = win_events
          /\ is_closed' = is_closed]_vars

\* The window has no popup menu; tick() has taken two ModifyMenuItem commands,
\* one for area 0 and one for an index that is no area, and waits.
C33_Witness ==
    /\ menus[1] = None
    /\ sentCommands = 2
    /\ done = [p \in Producers |-> 2]
    /\ events_rx = <<>>
    /\ native = {}
    /\ pc = "select"
    /\ result.tag = "None"

\* tick() takes a Notification command.
TakesNotification ==
    /\ pc = "select"
    /\ events_rx # <<>>
    /\ recv.kind = "Notification"
    /\ events_rx' = Tail(events_rx)

\* C34: a notification whose send_notification failed, tick() returning the
\* error, does not keep the visible slot occupied.
C34_FailedSendFreesSlot ==
    [][TakesNotification /\ pc' = "idle" /\ result' = Err("SendNotification")
          => visible' = <<>>]_vars

\* tick() takes a NotificationClicked or NotificationDismissed window event.
TakesNotificationSignal ==
    /\ pc = "select"
    /\ WindowLoop_tick_ready
    /\ WindowLoop_tick.kind \in {"NotificationClicked", "NotificationDismissed"}
    /\ win_events' = WindowLoop_tick_rest
    /\ pc' = "idle"

\* C35: a click or dismiss signal taken while a notification is visible makes
\* tick() return the event of that kind with the id of the visible
\* notification, also when the send of the next pending notification fails.
C35_SignalAlwaysReported ==
    [][TakesNotificationSignal /\ visible # <<>>
          => /\ result'.tag = "Ok"
             /\ result'.kind = WindowLoop_tick.kind
             /\ result'.id = visible[1].id]_vars

\* C36: a click or dismiss signal taken while no notification is visible
\* makes tick() return Err(MissingNotification) and changes nothing else: the
\* slot stays empty, the queue, the window and the thread handle are as they
\* were, and the loop is not closed.
C36_MissingNotificationChangesNothing ==
    [][TakesNotificationSignal /\ visible = <<>>
          => /\ result' = Err("MissingNotification")
             /\ visible' = <<>>
             /\ pending' = pending
             /\ native' = native
             /\ shown' = shown
             /\ thread' = thread
             /\ ~is_closed']_vars

\* tick() has returned MissingNotification for a signal that came while the
\* slot was empty.
C36_Witness ==
    /\ pc = "idle"
    /\ result = Err("MissingNotification")
    /\ lastWindowEvent.kind \in {"NotificationClicked", "NotificationDismissed"}
    /\ visible = <<>>
    /\ pending = <<>>
    /\ ~is_closed

ModifiesMenuItem ==
    /\ pc = "select"
    /\ events_rx # <<>>
    /\ recv.kind = "ModifyMenuItem"
    /\ events_rx' = Tail(events_rx)
    /\ popup_menu_of(recv.area) # None
    /\ recv.arg.idx < MenuLen
    /\ pc' = "select"

\* The state flags of the item `idx` of the popup menu of `area`, in the
\* table of menus `ms`.
ItemFlags(ms, area, idx) == ms[area + 1][1].fState[idx + 1]

\* C38: a ModifyMenuItem command that sets only `checked` leaves the highlight
\* and the default designation of the item as they were, and one that sets
\* only `highlight` leaves checked and default as they were.
C38_OtherFlagsKept ==
    [][ModifiesMenuItem =>
          LET modify == recv.arg.modify
              before == ItemFlags(menus, recv.area, recv.arg.idx)
              after  == ItemFlags(menus', recv.area, recv.arg.idx)
              kept(flag) == (flag \in after) = (flag \in before)
          IN  /\ modify.checked # None /\ modify.highlight = None
                   => kept("MFS_HILITE") /\ kept("MFS_DEFAULT")
              /\ modify.checked = None /\ modify.highlight # None
                   => kept("MFS_CHECKED") /\ kept("MFS_DEFAULT")]_vars

\* C39: once a Clipboard event has been sent, and until a clipboard-update
\* signal is raised, the retry timer makes no poll and no Error event is sent.
C39_NoRetryAfterDelivery ==
    [][delivered => retryPolls' <= retryPolls /\ clipErrors' = clipErrors]_vars

\* C40: the retry timer is set exactly while attempts is at least 1, and
\* attempts never exceeds RETRY_MAX_ATTEMPTS.
C40_RetryTimerIffAttempts ==
    /\ ("CLIPBOARD_RETRY_TIMER" \in timers) <=> (attempts >= 1)
    /\ attempts \in 0..RETRY_MAX_ATTEMPTS

\* The retry timer is set and has used all its attempts but the last, after a
\* second change of the clipboard set the attempts anew.
C40_Witness ==
    /\ "CLIPBOARD_RETRY_TIMER" \in timers
    /\ attempts = RETRY_MAX_ATTEMPTS
    /\ fires = 2
    /\ clipEvents = 1

====
